---- MODULE Spec2Model ----
(***************************************************************************)
(* Model of the SHEM orchestrator (fhswf/shem): the orchestrator          *)
(* self-update protocol (main.go, orchestrator.go), the update engine     *)
(* (update_manager.go), the configuration store (config.go) and the       *)
(* module supervisor (module_manager.go).                                  *)
(*                                                                         *)
(* A version string is modelled as the sequence of its dot-separated      *)
(* parts ("0.0.5" is <<"0","0","5">>); a file is the sequence of its       *)
(* lines and newline tokens.                                               *)
(***************************************************************************)
EXTENDS Integers, Sequences, FiniteSets, TLC

\* ------------------------------------------------------------------------
\* Bounds of the model
\* ------------------------------------------------------------------------
MaxStarts == 3

MaxCycles == 2

MaxLifeCycles == 1

MaxTicks == 3

\* ------------------------------------------------------------------------
\* Versions (update_manager.go)
\* ------------------------------------------------------------------------
VA == <<"0", "0", "4">>
VB == <<"0", "0", "5">>
VC == <<"0", "0", "6">>
VBad == <<"0", "0", "x">>
V05 == <<"0", "0", "05">>
NoVersion == <<>>

\* strconv.Atoi on the parts that occur in the model; a part outside the
\* table does not convert
AtoiTable == [p \in {"0", "4", "5", "6", "05", "10", "2"} |->
                CASE p = "0" -> 0 [] p = "4" -> 4 [] p = "5" -> 5 [] p = "6" -> 6
                  [] p = "05" -> 5 [] p = "10" -> 10 [] p = "2" -> 2]

parseVersion(version) ==
    IF Len(version) # 3
      THEN [ok |-> FALSE, major |-> 0, minor |-> 0, patch |-> 0]
    ELSE IF version[1] \notin DOMAIN AtoiTable
      THEN [ok |-> FALSE, major |-> 0, minor |-> 0, patch |-> 0]
    ELSE IF version[2] \notin DOMAIN AtoiTable
      THEN [ok |-> FALSE, major |-> 0, minor |-> 0, patch |-> 0]
    ELSE IF version[3] \notin DOMAIN AtoiTable
      THEN [ok |-> FALSE, major |-> 0, minor |-> 0, patch |-> 0]
    ELSE [ok |-> TRUE, major |-> AtoiTable[version[1]],
          minor |-> AtoiTable[version[2]], patch |-> AtoiTable[version[3]]]

compareVersionsLexicalMutant(v1, v2) ==
    LET a == parseVersion(v1)
        b == parseVersion(v2)
    IN  IF a.patch # b.patch THEN (IF a.patch < b.patch THEN 1 ELSE -1)
        ELSE 0

compareVersions(v1, v2) ==
    LET a == parseVersion(v1)
        b == parseVersion(v2)
    IN  IF a.major # b.major THEN (IF a.major > b.major THEN 1 ELSE -1)
        ELSE IF a.minor # b.minor THEN (IF a.minor > b.minor THEN 1 ELSE -1)
        ELSE IF a.patch # b.patch THEN (IF a.patch > b.patch THEN 1 ELSE -1)
        ELSE 0

\* ------------------------------------------------------------------------
\* Configuration store: the blacklist file (config.go)
\* ------------------------------------------------------------------------
NL == <<"\n">>

\* bufio.Scanner over the file content, empty lines skipped
RECURSIVE ScanLines(_)
ScanLines(content) ==
    IF content = <<>> THEN {}
    ELSE IF Head(content) = NL THEN ScanLines(Tail(content))
    ELSE {Head(content)} \cup ScanLines(Tail(content))

GetBlacklistedVersions(content) == ScanLines(content)

\* every order sort.Slice can leave the slice in: ascending under
\* compareVersions, versions that compare equal in any order
RECURSIVE AllOrders(_)
AllOrders(S) ==
    IF S = {} THEN {<<>>}
    ELSE UNION {{<<v>> \o rest : rest \in AllOrders(S \ {v})} : v \in S}

SortedSlices(S) ==
    {sl \in AllOrders(S) :
        \A i \in 1..(Len(sl) - 1) : compareVersions(sl[i + 1], sl[i]) >= 0}

\* strings.Join(versionSlice, "\n"), plus a final "\n" when non-empty
RECURSIVE JoinLines(_)
JoinLines(sl) ==
    IF sl = <<>> THEN <<>>
    ELSE IF Len(sl) = 1 THEN <<sl[1]>>
    ELSE <<sl[1], NL>> \o JoinLines(Tail(sl))

writeBlacklistFileUnsortedMutant(versions) ==
    {IF sl = <<>> THEN <<>> ELSE JoinLines(sl) \o <<NL>> : sl \in AllOrders(versions)}

writeBlacklistFile(versions) ==
    {IF sl = <<>> THEN <<>> ELSE JoinLines(sl) \o <<NL>> : sl \in SortedSlices(versions)}

\* the contents AddToBlacklist can leave in the file
AddToBlacklist(content, version) ==
    writeBlacklistFile(GetBlacklistedVersions(content) \cup {version})

\* RemoveFromBlacklist fails when the version is not in the file
RemoveFromBlacklistFound(content, version) ==
    version \in GetBlacklistedVersions(content)

RemoveFromBlacklist(content, version) ==
    writeBlacklistFile(GetBlacklistedVersions(content) \ {version})

\* ------------------------------------------------------------------------
\* State
\* ------------------------------------------------------------------------
Modules == {"orchestrator", "app"}

HostArch == "amd64"

VARIABLES
    \* the host's disk and image storage
    symlink,           \* version whose binary bin/shem-orchestrator points at
    binFiles,          \* suffixes v of the files bin/shem-orchestrator-<v>
    blacklist,         \* module -> content of modules/<module>/blacklist
    currentVersionFile,\* module -> content of modules/<module>/current_version
    localTags,         \* module -> tags of the module's image in local storage
    registry,          \* module -> version -> labels of <image>-sig:<version>-<arch>
    \* the orchestrator process (main.go, orchestrator.go)
    mode,              \* "none", "normal" or "verify" (--verification-run)
    Version,           \* compiled-in version of the running binary
    parent,            \* version of the process waiting in executeVerificationRun
    pc,                \* "phase0", "run"
    cancelled,         \* ctx.Done() is closed
    umTask,            \* UpdateManager.Run: "run" or "done"
    vTask,             \* verification timer task: "none", "wait", "checked", "done"
    notifySocket,      \* NOTIFY_SOCKET and WATCHDOG_USEC are set in the environment
    hbTask,            \* HeartbeatService.Run: "none", "run" or "done"
    \* the update engine of the running process (update_manager.go)
    scheduledUpdates,  \* module -> scheduled version (NoVersion: no entry)
    updateChannel,     \* queue of module names
    timers,            \* module -> number of deferred tasks still sleeping
    \* what has happened (observed, never read by the program)
    verified,          \* <<module, version>> that passed verifySignature in this process
    lastCycle,         \* module -> versions whose verifyAndPullImage failed in the last cycle
    lastSelect,        \* module -> what the last cycle's selection was given and returned
    lastUpdate,        \* what the last updateModule call did
    lastPhase0,        \* what the last Phase 0 saw and did
    lastExit,          \* how the last verification run and its parent ended
    runs,              \* version -> number of verification runs spawned
    failedRuns,        \* versions whose verification run exited non-zero unpromoted
    starts,            \* number of process starts by the host
    cycles,            \* number of check cycles of the running process
    \* the module directories (modules/<name>/) the supervisor reads
    imageFile,         \* module -> modules/<module>/image (NoFile: absent)
    disabledFile,      \* modules whose directory holds a file named disabled
    restartFile,       \* modules whose directory holds a file named restart
    \* the module supervisor (module_manager.go) and podman
    modules,           \* mm.modules: module -> record of its running instance
    instances,         \* every podman run child started, in the order of their start
    containers,        \* names of the containers podman holds
    mmTask,            \* ModuleManager.Run: "run" or "stopped"
    lastSweep,         \* what the last cleanupOrphanedContainers saw and did
    lastTick,          \* what the last reconcile did and left behind
    ticks,             \* number of reconcile calls
    edits              \* number of changes made to the module directories

hostVars == <<symlink, binFiles, blacklist, currentVersionFile, localTags, registry>>
procVars == <<mode, Version, parent, pc, cancelled, umTask, vTask>>
hbVars == <<notifySocket, hbTask>>
umVars == <<scheduledUpdates, updateChannel, timers>>
obsVars == <<verified, lastCycle, lastSelect, lastUpdate, lastPhase0, lastExit, runs, failedRuns, starts, cycles>>
VARIABLES
    watched,      \* watchModule: instance.name of the watched child
    passedOn,     \* watchModule: the last message name qualified and passed on
    inputs,       \* the lines of the inputs file of a subscribing module
    stdinWritten, \* the messages written to the subscriber's instance.stdin, in order
    netMembers,   \* the versions added to and not removed from app's blacklist
    lastBl,       \* the last AddToBlacklist / RemoveFromBlacklist call and its result
    blOps,        \* number of blacklist calls made
    rt,           \* a message, its encoding, the parse of that and its re-encoding
    wire,         \* bytes on the wire, what Parse and what Reader.Read make of them
    num,          \* a float64, what Number makes of it and its encoded form parsed back
    stream,       \* the lines of the stream the Reader has not consumed yet
    closed,       \* "open", "closed" (writer side closed) or "cut" (closed inside a message)
    written,      \* the messages written with Writer.Write, in order
    framed,       \* what Parse returns for the body of each message on the stream
    results,      \* the results of the Reader.Read calls, in order
    vp,           \* a verifyAndPullImage call: what it was given, ran and returned
    wm,           \* watchModule of one instance: its goroutines and the child's stdout
    retry         \* a check cycle taken one iteration of its retry loop at a time

mmVars == <<imageFile, disabledFile, restartFile, modules, instances, containers, mmTask,
           lastSweep, lastTick, ticks, edits>>
watchVars == <<watched, passedOn, inputs, stdinWritten>>
blVars == <<netMembers, lastBl, blOps>>
rtVars == <<rt, wire, num>>
streamVars == <<stream, closed, written, framed, results>>
verifyVars == <<vp>>
wmVars == <<wm>>
retryVars == <<retry>>
libVars == <<watchVars, blVars, rtVars, streamVars, verifyVars, wmVars, retryVars>>
vars == <<hostVars, procVars, hbVars, umVars, obsVars, mmVars, libVars>>

\* ------------------------------------------------------------------------
\* Registry, signatures and selection (update_manager.go)
\* ------------------------------------------------------------------------
ImageOf(m) == IF m = "orchestrator" THEN "quay.io/shem/shem-orchestrator" ELSE "quay.io/pub/app"

\* the public_key file of a module
PublicKeyOf(m) == "K1"

\* the digest of the publisher's binary image of a version
DigestOf(v) == IF v = VB THEN "sha256:b" ELSE IF v = VC THEN "sha256:c" ELSE "sha256:a"

Tag(v) == [version |-> v, arch |-> HostArch]

\* base64.StdEncoding.DecodeString of a key: its length in bytes, -1 when it
\* does not decode
DecodedLen(key) == IF key \in {"K1", "K2"} THEN 32 ELSE IF key = "Kshort" THEN 16 ELSE -1

\* a signature is what a key holder produced over a message; the empty label
\* is NoSignature
NoSignature == [key |-> "", msg |-> <<>>]

SignedMessage(baseImage, tag, digest) == <<baseImage, tag, digest>>

ed25519Verify(publicKey, message, signature) ==
    signature.key = publicKey /\ signature.msg = message

\* labels of the signature containers a registry can serve for (m, v)
GoodLabels(m, v) ==
    [digest |-> DigestOf(v), pubkey |-> "K1",
     signature |-> [key |-> "K1", msg |-> SignedMessage(ImageOf(m), Tag(v), DigestOf(v))]]

ForeignKeyLabels(m, v) ==
    [digest |-> "sha256:evil", pubkey |-> "K2",
     signature |-> [key |-> "K2", msg |-> SignedMessage(ImageOf(m), Tag(v), "sha256:evil")]]

SwappedDigestLabels(m, v) ==
    [digest |-> "sha256:evil", pubkey |-> "K1",
     signature |-> [key |-> "K1", msg |-> SignedMessage(ImageOf(m), Tag(v), DigestOf(v))]]

UnsignedLabels(m, v) ==
    [digest |-> DigestOf(v), pubkey |-> "K1", signature |-> NoSignature]

\* extractSignatureData fails when a label is empty
extractSignatureDataOk(labels) ==
    labels.digest # "" /\ labels.pubkey # "" /\ labels.signature # NoSignature

verifySignatureNoKeyCheckMutant(baseImage, tag, sigData, modulePublicKey) ==
    /\ DecodedLen(sigData.pubkey) = 32
    /\ ed25519Verify(sigData.pubkey, SignedMessage(baseImage, tag, sigData.digest),
                     sigData.signature)

verifySignature(baseImage, tag, sigData, modulePublicKey) ==
    /\ sigData.pubkey = modulePublicKey
    /\ DecodedLen(modulePublicKey) >= 0
    /\ DecodedLen(modulePublicKey) = 32
    /\ ed25519Verify(modulePublicKey, SignedMessage(baseImage, tag, sigData.digest),
                     sigData.signature)

\* findRemoteVersions: the versions of the signature tags of the host architecture
findRemoteVersions(m) == DOMAIN registry[m]

\* findLatestEligibleVersion over the remote versions: the versions it can
\* return, the map being ranged over in any order; NoVersion is the error
\* return ("no eligible version")
EligibleVersionsNotStrictMutant(versionsMap, minimumVersion, bl) ==
    {v \in versionsMap :
        /\ v \notin bl
        /\ ~(minimumVersion # NoVersion /\ compareVersions(v, minimumVersion) < 0)}

EligibleVersions(versionsMap, minimumVersion, bl) ==
    {v \in versionsMap :
        /\ v \notin bl
        /\ ~(minimumVersion # NoVersion /\ compareVersions(v, minimumVersion) <= 0)}

findLatestEligibleVersion(versionsMap, minimumVersion, bl) ==
    LET el == EligibleVersions(versionsMap, minimumVersion, bl)
    IN  IF el = {} THEN {NoVersion}
        ELSE {v \in el : \A w \in el : compareVersions(w, v) <= 0}

\* findLocalVersions: the versions of the local tags of the host architecture
\* (the tag's version is not checked to parse)
findLocalVersions(m) == {t.version : t \in {u \in localTags[m] : u.arch = HostArch}}

currentModuleVersion(m) ==
    IF m = "orchestrator" THEN Version ELSE currentVersionFile[m]

\* verifyAndPullImage for (m, v) when the runtime's commands end as `outcome`
\* says: "ok", or the command that fails ("sigpull", "binpull", "tag");
\* Passes: verifySignature was reached and returned no error
verifyAndPullPasses(m, v, outcome) ==
    /\ outcome # "sigpull"
    /\ extractSignatureDataOk(registry[m][v])
    /\ verifySignature(ImageOf(m), Tag(v), registry[m][v], PublicKeyOf(m))

verifyAndPullImage(m, v, outcome) ==
    /\ verifyAndPullPasses(m, v, outcome)
    /\ outcome # "binpull"

Outcomes == {"ok", "sigpull", "binpull", "tag"}

\* the podman commands of verifyAndPullImage
PullSignature(baseImage, tag) == [cmd |-> "pull", image |-> <<baseImage, "-sig">>, ref |-> tag]

InspectLabels(baseImage, tag) == [cmd |-> "inspect", image |-> <<baseImage, "-sig">>, ref |-> tag]

PullByDigest(baseImage, digest) == [cmd |-> "pull", image |-> <<baseImage>>, ref |-> digest]

TagImage(baseImage, digest, tag) ==
    [cmd |-> "tag", image |-> <<baseImage>>, ref |-> digest, as |-> tag]

\* verifyAndPullImage, lines 297-338, step by step: the podman commands it
\* runs and whether it returns an error; `outcome` names the podman command
\* that fails, if any ("inspect": a podman inspect of extractSignatureData)
verifyAndPullSteps(baseImage, tag, labels, modulePublicKey, outcome) ==
    LET pulledSig == <<PullSignature(baseImage, tag)>>
        inspected == pulledSig \o <<InspectLabels(baseImage, tag)>>
        pulledBin == inspected \o <<PullByDigest(baseImage, labels.digest)>>
        tagged == pulledBin \o <<TagImage(baseImage, labels.digest, tag)>>
    IN  IF outcome = "sigpull"
          THEN [err |-> "failed to pull signature container", ran |-> pulledSig]
        ELSE IF outcome = "inspect" \/ ~extractSignatureDataOk(labels)
          THEN [err |-> "failed to extract signature data", ran |-> inspected]
        ELSE IF ~verifySignature(baseImage, tag, labels, modulePublicKey)
          THEN [err |-> "signature verification failed", ran |-> inspected]
        ELSE IF outcome = "binpull"
          THEN [err |-> "failed to pull binary container", ran |-> pulledBin]
        ELSE [err |-> "", ran |-> tagged]

BlacklistAfterFailureKeptMutant(bl, latestVersion) == bl

EmptyAcc ==
    [found |-> NoVersion, outcome |-> "ok", failed |-> {}, passed |-> {}, attempts |-> <<>>,
     calls |-> <<>>]

\* checkAndScheduleUpdates, line 587: the blacklist the next selection of
\* this cycle uses after latestVersion failed
BlacklistAfterFailure(bl, latestVersion) == bl \cup {latestVersion}

\* the retry loop of checkAndScheduleUpdates (lines 570-603) for one module:
\* every way it can end, given by the version found (NoVersion: none), the
\* versions that failed, those that passed verifySignature, the attempts, and
\* the blacklist and the result of every findLatestEligibleVersion call
RECURSIVE RetryLoop(_, _, _, _)
RetryLoop(m, minimumVersion, bl, acc) ==
    UNION {
      LET tried == [acc EXCEPT !.attempts = @ \o <<latestVersion>>,
                               !.calls = @ \o <<[bl |-> bl, latest |-> latestVersion]>>]
      IN  IF latestVersion = NoVersion THEN {[acc EXCEPT !.calls = tried.calls]}
          ELSE UNION {
                 IF ~verifyAndPullImage(m, latestVersion, o)
                   THEN RetryLoop(m, minimumVersion, BlacklistAfterFailure(bl, latestVersion),
                          [tried EXCEPT !.failed = @ \cup {latestVersion},
                                        !.passed = @ \cup (IF verifyAndPullPasses(m, latestVersion, o)
                                                            THEN {latestVersion} ELSE {})])
                   ELSE {[tried EXCEPT !.found = latestVersion, !.outcome = o,
                                       !.passed = @ \cup {latestVersion}]}
                 : o \in Outcomes}
      : latestVersion \in findLatestEligibleVersion(findRemoteVersions(m), minimumVersion, bl)}

\* ------------------------------------------------------------------------
\* Initial state: an installed release of version VA, started by the host
\* ------------------------------------------------------------------------
NoUpdate ==
    [module |-> "", newest |-> NoVersion, extracted |-> FALSE, onBlacklist |-> FALSE,
     verified |-> FALSE, byDigest |-> FALSE, newer |-> FALSE, cancel |-> FALSE,
     wroteCurrent |-> FALSE]

NoPhase0 ==
    [own |-> NoVersion, byVerificationRun |-> FALSE, bins |-> {}, bl |-> {}, readOk |-> FALSE,
     selected |-> NoVersion, addFailed |-> FALSE, startFailed |-> FALSE, spawned |-> FALSE,
     symlink |-> NoVersion]

NoExit ==
    [child |-> NoVersion, kind |-> "exit", childCode |-> 0, parentCode |-> 0, promoted |-> FALSE,
     symlinkBefore |-> NoVersion, symlinkAfter |-> NoVersion]

\* no check cycle has run
NoSelect ==
    [current |-> NoVersion, scheduled |-> NoVersion, minimum |-> NoVersion,
     remote |-> {}, calls |-> <<>>]

FreshProcess ==
    /\ scheduledUpdates = [m \in Modules |-> NoVersion]
    /\ updateChannel = <<>>
    /\ timers = [m \in Modules |-> 0]
    /\ verified = {}
    /\ lastCycle = [m \in Modules |-> {}]
    /\ lastSelect = [m \in Modules |-> NoSelect]
    /\ lastUpdate = NoUpdate
    /\ cycles = 0

\* a registry without signature containers for a module's image
EmptyRegistry == [v \in {} |-> NoSignature]

\* local storage holding images from before the process started
OldTags ==
    {[version |-> VC, arch |-> HostArch, digest |-> "sha256:old"],
     [version |-> VB, arch |-> "arm64", digest |-> "sha256:b"]}

\* local storage holding the image of the installed orchestrator release
InstalledTags == {[version |-> VA, arch |-> HostArch, digest |-> "sha256:a"]}

\* ------------------------------------------------------------------------
\* The module directories and the supervisor's table (config.go,
\* module_manager.go)
\* ------------------------------------------------------------------------
MaxSpawns == 2
MaxEdits == 1

\* the directories modules/<name>/ the host can hold
ModuleDirs == Modules

\* the modules reconcile does not skip (line 88)
Supervised == ModuleDirs \ {"orchestrator"}

\* the order in which os.ReadDir lists them
SupervisedOrder == <<"app">>

\* a file of a module directory: absent, or present with its trimmed content
NoFile == <<>>

File(content) == <<content>>

\* ListModules: the directories that hold a file named image
ListModules == {n \in ModuleDirs : imageFile[n] # NoFile}

\* GetString(key, ""): the trimmed content, "" when the file is absent
GetString(file) == IF file = NoFile THEN "" ELSE file[1]

\* startModule, line 252
containerName(moduleName) == "shem-module-" \o moduleName

\* a container left behind by a module whose directory is gone
StaleContainer == containerName("old")

ContainerNames == {containerName(n) : n \in Supervised} \cup {StaleContainer}

\* mm.modules[name] == nil
NoInstance == [id |-> 0, name |-> "", image |-> "", version |-> NoVersion, containerName |-> ""]

\* startModule, lines 273-283: the record of a started instance
ModuleInstance(id, moduleName, image, version) ==
    [id |-> id, name |-> moduleName, image |-> image, version |-> version,
     containerName |-> containerName(moduleName)]

NoSweep ==
    [by |-> "", listOk |-> FALSE, before |-> {}, expected |-> {}, rmFailed |-> {}, after |-> {}]

NoTick ==
    [listed |-> FALSE, stopped |-> {}, spawned |-> {}, records |-> {}, containers |-> {},
     sweep |-> NoSweep, table |-> [n \in ModuleDirs |-> NoInstance], examined |-> {},
     disabled |-> {}, restart |-> {},
     config |-> [n \in Supervised |-> [image |-> "", version |-> NoVersion]],
     io |-> [n \in Supervised |-> "ok"], followsRestart |-> {}]

\* no supervisor runs
\* no message has been passed on
NoName == [child |-> <<>>, original |-> <<>>, name |-> <<>>]

\* no blacklist call has been made
NoBlOp == [op |-> "", version |-> NoVersion, err |-> FALSE, before |-> <<>>, after |-> <<>>]

\* no verifyAndPullImage call is looked at
NoVerify == [done |-> FALSE]

VerifyIdle == vp = NoVerify

\* no watchModule call is looked at
NoWatcher == [main |-> "none"]

WatcherIdle == wm = NoWatcher

\* no check cycle is taken step by step
NoRetry ==
    [phase |-> "idle", todo |-> <<>>, minimum |-> NoVersion, bl |-> {}, remote |-> {},
     attempts |-> <<>>]

RetryIdle == retry = NoRetry

BlIdle ==
    /\ netMembers = {}
    /\ lastBl = NoBlOp
    /\ blOps = 0

\* no round trip has been made and nothing is on the stream
StreamIdle ==
    /\ stream = <<>>
    /\ closed = "open"
    /\ written = <<>>
    /\ framed = <<>>
    /\ results = <<>>

CodecIdle ==
    /\ rt = [done |-> FALSE]
    /\ wire = [done |-> FALSE]
    /\ num = [done |-> FALSE]
    /\ StreamIdle

LibIdle ==
    /\ watched = <<>>
    /\ passedOn = NoName
    /\ inputs = <<>>
    /\ stdinWritten = <<>>
    /\ BlIdle
    /\ WatcherIdle
    /\ RetryIdle
    /\ VerifyIdle
    /\ CodecIdle

MMIdle ==
    /\ imageFile = [n \in ModuleDirs |-> File(ImageOf(n))]
    /\ disabledFile = {}
    /\ restartFile = {}
    /\ modules = [n \in ModuleDirs |-> NoInstance]
    /\ instances = <<>>
    /\ containers = {}
    /\ mmTask = "stopped"
    /\ lastSweep = NoSweep
    /\ lastTick = NoTick
    /\ ticks = 0
    /\ edits = 0

\* the process is started without systemd's watchdog in its environment
NoWatchdog == notifySocket = FALSE

InitProcess ==
    /\ mode = "none" /\ Version = NoVersion /\ parent = NoVersion /\ pc = "none"
    /\ cancelled = FALSE /\ umTask = "none" /\ vTask = "none" /\ hbTask = "none"
    /\ FreshProcess
    /\ lastPhase0 = NoPhase0
    /\ lastExit = NoExit
    /\ runs = [v \in {VB, VC} |-> 0]
    /\ failedRuns = {}
    /\ starts = 0

\* the self-update protocol over several process starts
Init ==
    /\ symlink = VA
    /\ binFiles \in {{VA}, {VA, VB, VBad}, {VA, VB, VC}}
    /\ blacklist \in {[m \in Modules |-> <<>>],
                      [m \in Modules |-> IF m = "orchestrator" THEN <<VC, NL>> ELSE <<>>]}
    /\ currentVersionFile = [m \in Modules |-> VA]
    /\ localTags = [m \in Modules |-> {}]
    /\ registry = [m \in Modules |->
                     IF m = "orchestrator"
                       THEN (VB :> GoodLabels(m, VB)) @@ (VC :> GoodLabels(m, VC))
                       ELSE EmptyRegistry]
    /\ InitProcess
    /\ NoWatchdog
    /\ MMIdle
    /\ LibIdle

\* the update engine of one process, over the registries and local storage
\* it can meet
InitEngine ==
    /\ symlink = VA
    /\ currentVersionFile = [m \in Modules |-> VA]
    /\ \/ /\ binFiles \in {{VA}, {VA, VB}}
          /\ blacklist \in {[m \in Modules |-> <<>>],
                            [m \in Modules |-> IF m = "orchestrator" THEN <<VC, NL>> ELSE <<>>]}
          /\ localTags \in {[m \in Modules |-> {}],
                            [m \in Modules |-> IF m = "orchestrator" THEN OldTags ELSE {}]}
          /\ registry \in
               {[m \in Modules |->
                    IF m = "orchestrator" THEN (VB :> lb) @@ (VC :> lc) ELSE EmptyRegistry] :
                    lb \in {GoodLabels("orchestrator", VB), SwappedDigestLabels("orchestrator", VB)},
                    lc \in {GoodLabels("orchestrator", VC), ForeignKeyLabels("orchestrator", VC),
                            UnsignedLabels("orchestrator", VC)}}
               \cup
               {[m \in Modules |-> IF m = "app" THEN (VB :> GoodLabels(m, VB)) @@ (VC :> lc)
                                   ELSE EmptyRegistry] :
                    lc \in {GoodLabels("app", VC), ForeignKeyLabels("app", VC)}}
       \/ \* app's registry holds its current version and two versions that
          \* compare equal, one of which may be on app's blacklist
          /\ binFiles = {VA}
          /\ blacklist \in {[m \in Modules |-> <<>>],
                            [m \in Modules |-> IF m = "app" THEN <<VB, NL>> ELSE <<>>]}
          /\ localTags = [m \in Modules |-> {}]
          /\ registry \in
               {[m \in Modules |->
                    IF m = "app" THEN [v \in vs |-> GoodLabels(m, v)] ELSE EmptyRegistry] :
                    vs \in {{VA}, {VA, VB, V05}}}
       \/ \* a newer orchestrator binary is installed, and the registries of
          \* both modules hold newer versions
          /\ binFiles = {VA, VB}
          /\ blacklist = [m \in Modules |-> <<>>]
          /\ localTags \in {[m \in Modules |-> {}],
                            [m \in Modules |-> IF m = "orchestrator" THEN InstalledTags ELSE {}]}
          /\ registry = [m \in Modules |->
                           IF m = "orchestrator" THEN (VC :> GoodLabels(m, VC))
                           ELSE (VB :> GoodLabels(m, VB))]
    /\ InitProcess
    /\ NoWatchdog
    /\ MMIdle
    /\ LibIdle

ResetProcess ==
    /\ scheduledUpdates' = [m \in Modules |-> NoVersion]
    /\ updateChannel' = <<>>
    /\ timers' = [m \in Modules |-> 0]
    /\ verified' = {}
    /\ lastCycle' = [m \in Modules |-> {}]
    /\ lastSelect' = [m \in Modules |-> NoSelect]
    /\ lastUpdate' = NoUpdate
    /\ cycles' = 0

\* ------------------------------------------------------------------------
\* Process start and Phase 0 (main.go)
\* ------------------------------------------------------------------------
\* the binary the symlink points at is executed
StartBinary ==
    /\ mode = "none"
    /\ symlink \in binFiles
    /\ mode' = "normal" /\ Version' = symlink /\ pc' = "phase0"
    /\ cancelled' = FALSE /\ umTask' = "none" /\ vTask' = "none" /\ hbTask' = "none"
    /\ UNCHANGED <<libVars, mmVars, notifySocket, hostVars, parent, umVars, verified, lastCycle, lastSelect, lastUpdate, cycles,
                   lastPhase0, lastExit, runs, failedRuns>>

\* the host supervisor starts the binary the symlink points at
HostStart ==
    /\ starts < MaxStarts
    /\ starts' = starts + 1
    /\ StartBinary

\* the host supervisor restarts the orchestrator whenever it has exited,
\* any number of times
HostRestarts ==
    /\ UNCHANGED starts
    /\ StartBinary

findNewestIgnoringBlacklistMutant(bins, bl) ==
    LET c == {v \in bins : parseVersion(v).ok}
    IN  IF c = {} THEN NoVersion
        ELSE CHOOSE v \in c : \A w \in c : compareVersions(w, v) <= 0

\* findNewestOrchestratorVersion over the files of bin/ and the blacklist read
findNewestOrchestratorVersion(bins, bl) ==
    LET c == {v \in bins : parseVersion(v).ok /\ v \notin bl}
    IN  IF c = {} THEN NoVersion
        ELSE CHOOSE v \in c : \A w \in c : compareVersions(w, v) <= 0

\* NewHeartbeatService returns a service if the systemd watchdog is enabled
NewHeartbeatService == notifySocket

\* Orchestrator.Run starts the tasks of a process
StartRun(verificationRun) ==
    /\ pc' = "run"
    /\ cancelled' = FALSE
    /\ umTask' = "run"
    /\ vTask' = IF verificationRun THEN "wait" ELSE "none"
    /\ hbTask' = IF NewHeartbeatService THEN "run" ELSE "none"

Phase0InVerificationRunMutant(verificationRun) == TRUE

\* main, line 60: Phase 0 is skipped with --verification-run
Phase0Applies(verificationRun) == ~verificationRun

Phase0SpawnWithoutBlacklistMutant(newestVersion, addOk) == TRUE

\* main, lines 71-75: the candidate is executed only after AddToBlacklist
\* returned no error
Phase0Spawns(newestVersion, addOk) == addOk

\* main, lines 60-82, with executeVerificationRun up to cmd.Start
Phase0 ==
    /\ pc = "phase0"
    /\ IF ~Phase0Applies(mode = "verify")
         THEN /\ StartRun(mode = "verify")
              /\ UNCHANGED <<blacklist, mode, Version, parent, runs, lastPhase0>>
         ELSE
       \E readOk \in BOOLEAN, addOk \in BOOLEAN, startOk \in BOOLEAN :
        LET bl == GetBlacklistedVersions(blacklist["orchestrator"])
            newestVersion == IF readOk THEN findNewestOrchestratorVersion(binFiles, bl)
                             ELSE NoVersion
            found == newestVersion # NoVersion /\ compareVersions(newestVersion, Version) > 0
            spawn == found /\ Phase0Spawns(newestVersion, addOk)
        IN  /\ lastPhase0' = [own |-> Version, byVerificationRun |-> mode = "verify",
                              bins |-> binFiles, bl |-> bl, readOk |-> readOk,
                              selected |-> IF found THEN newestVersion ELSE NoVersion,
                              addFailed |-> found /\ ~addOk,
                              startFailed |-> spawn /\ ~startOk,
                              spawned |-> spawn /\ startOk, symlink |-> symlink]
            /\ IF found /\ addOk
                 THEN \E content \in AddToBlacklist(blacklist["orchestrator"], newestVersion) :
                         blacklist' = [blacklist EXCEPT !["orchestrator"] = content]
                 ELSE UNCHANGED blacklist
            /\ IF spawn /\ startOk
                 THEN \* the child process starts in main with --verification-run
                      /\ parent' = Version
                      /\ mode' = "verify"
                      /\ Version' = newestVersion
                      /\ runs' = [runs EXCEPT ![newestVersion] = @ + 1]
                      /\ UNCHANGED <<pc, cancelled, umTask, vTask, hbTask>>
               ELSE IF spawn
                 THEN \* cmd.Start failed: os.Exit(1)
                      /\ mode' = "none" /\ Version' = NoVersion /\ pc' = "none"
                      /\ UNCHANGED <<parent, cancelled, umTask, vTask, hbTask, runs>>
               ELSE /\ StartRun(mode = "verify")
                    /\ UNCHANGED <<mode, Version, parent, runs>>
    /\ UNCHANGED <<libVars, mmVars, notifySocket, symlink, binFiles, currentVersionFile, localTags,
                   registry, umVars,
                   verified, lastCycle, lastSelect, lastUpdate, lastExit, failedRuns, starts, cycles>>

\* ------------------------------------------------------------------------
\* The update engine (update_manager.go)
\* ------------------------------------------------------------------------
UpdateChannelCap == 2

Running == pc = "run" /\ umTask = "run"

\* local storage after verifyAndPullImage succeeded for (m, v): the image
\* pulled by digest carries the tag, unless podman tag failed
PulledTags(m, tags, v, outcome) ==
    IF outcome = "tag" THEN tags
    ELSE {t \in tags : ~(t.version = v /\ t.arch = HostArch)}
           \cup {[version |-> v, arch |-> HostArch, digest |-> registry[m][v].digest]}

\* checkAndScheduleUpdates, lines 554-561
MinimumVersionCurrentOnlyMutant(m) == currentModuleVersion(m)

MinimumVersion(m) ==
    IF scheduledUpdates[m] # NoVersion THEN scheduledUpdates[m] ELSE currentModuleVersion(m)

\* checkAndScheduleUpdates, lines 594-601
SchedulesUpdateAlwaysMutant(m) == TRUE

SchedulesUpdate(m) == ~(mode = "verify" /\ m = "orchestrator")

\* the ways checkAndScheduleUpdates can end for one module
CycleOf(m) ==
    RetryLoop(m, MinimumVersion(m), GetBlacklistedVersions(blacklist[m]), EmptyAcc)

checkAndScheduleUpdates ==
    /\ Running
    /\ cycles < MaxCycles
    /\ cycles' = cycles + 1
    /\ \E ro \in CycleOf("orchestrator"), ra \in CycleOf("app") :
        LET r == [m \in Modules |-> IF m = "orchestrator" THEN ro ELSE ra]
            sched == {m \in Modules : r[m].found # NoVersion /\ SchedulesUpdate(m)}
        IN  /\ localTags' = [m \in Modules |->
                               IF r[m].found = NoVersion THEN localTags[m]
                               ELSE PulledTags(m, localTags[m], r[m].found, r[m].outcome)]
            /\ scheduledUpdates' = [m \in Modules |->
                               IF m \in sched THEN r[m].found ELSE scheduledUpdates[m]]
            /\ timers' = [m \in Modules |-> IF m \in sched THEN timers[m] + 1 ELSE timers[m]]
            /\ verified' = verified \cup UNION {{<<m, v>> : v \in r[m].passed} : m \in Modules}
            /\ lastCycle' = [m \in Modules |-> r[m].failed]
            /\ lastSelect' = [m \in Modules |->
                               [current |-> currentModuleVersion(m),
                                scheduled |-> scheduledUpdates[m],
                                minimum |-> MinimumVersion(m),
                                remote |-> findRemoteVersions(m), calls |-> r[m].calls]]
    /\ UNCHANGED <<libVars, mmVars, hbVars, symlink, binFiles, blacklist, currentVersionFile, registry, procVars,
                   updateChannel, lastUpdate, lastPhase0, lastExit, runs, failedRuns, starts>>

\* an operator writes a newer version into modules/app/current_version while
\* an update of app is scheduled
OperatorWritesCurrentVersion ==
    /\ pc = "run"
    /\ scheduledUpdates["app"] # NoVersion
    /\ currentVersionFile["app"] = VA
    /\ \E v \in {VB, VC} : currentVersionFile' = [currentVersionFile EXCEPT !["app"] = v]
    /\ UNCHANGED <<libVars, mmVars, hbVars, symlink, binFiles, blacklist, localTags, registry,
                   procVars, umVars, obsVars>>

\* the goroutine of scheduleUpdate, after its sleep
DeferredTask(m) ==
    /\ pc = "run"
    /\ timers[m] > 0
    /\ timers' = [timers EXCEPT ![m] = @ - 1]
    /\ updateChannel' = IF Len(updateChannel) < UpdateChannelCap
                          THEN Append(updateChannel, m) ELSE updateChannel
    /\ UNCHANGED <<libVars, mmVars, hbVars, hostVars, procVars, scheduledUpdates, obsVars>>

\* updateModule, lines 665-673
NewestOf(localVersions) ==
    CHOOSE v \in localVersions : \A w \in localVersions : compareVersions(w, v) <= 0

\* updateModule, lines 675-679: the newest local version is not newer than
\* the current one
NotNewerStrictMutant(newestVersion, currentVersion) ==
    currentVersion # NoVersion /\ compareVersions(newestVersion, currentVersion) < 0

NotNewer(newestVersion, currentVersion) ==
    currentVersion # NoVersion /\ compareVersions(newestVersion, currentVersion) <= 0

\* updateModule for the module at the head of the channel
updateModule ==
    /\ Running
    /\ updateChannel # <<>>
    /\ LET m == Head(updateChannel)
           localVersions == findLocalVersions(m)
       IN  /\ updateChannel' = Tail(updateChannel)
           /\ scheduledUpdates' = [scheduledUpdates EXCEPT ![m] = NoVersion]
           /\ \E listOk \in BOOLEAN, extractOk \in BOOLEAN :
               IF ~listOk \/ localVersions = {}
                 THEN /\ lastUpdate' = [NoUpdate EXCEPT !.module = m]
                      /\ UNCHANGED <<binFiles, cancelled>>
               ELSE LET newestVersion == NewestOf(localVersions)
                        currentVersion == currentModuleVersion(m)
                        newer == ~NotNewer(newestVersion, currentVersion)
                        extract == newer /\ m = "orchestrator" /\ extractOk
                        tag == CHOOSE t \in localTags[m] :
                                   t.version = newestVersion /\ t.arch = HostArch
                    IN  /\ lastUpdate' =
                              [module |-> m, newest |-> newestVersion, extracted |-> extract,
                               onBlacklist |-> newestVersion \in GetBlacklistedVersions(blacklist[m]),
                               verified |-> <<m, newestVersion>> \in verified,
                               byDigest |-> /\ newestVersion \in DOMAIN registry[m]
                                            /\ tag.digest = registry[m][newestVersion].digest,
                               newer |-> newer, cancel |-> extract, wroteCurrent |-> FALSE]
                        /\ binFiles' = IF extract THEN binFiles \cup {newestVersion} ELSE binFiles
                        /\ cancelled' = (cancelled \/ extract)
    /\ UNCHANGED <<libVars, mmVars, hbVars, symlink, blacklist, currentVersionFile, localTags, registry,
                   mode, Version, parent, pc, umTask, vTask, timers,
                   verified, lastCycle, lastSelect, lastPhase0, lastExit, runs, failedRuns, starts, cycles>>

\* UpdateManager.Run returns on ctx.Done()
updateManagerStops ==
    /\ Running
    /\ cancelled
    /\ umTask' = "done"
    /\ UNCHANGED <<libVars, mmVars, hbVars, hostVars, mode, Version, parent, pc, cancelled, vTask, umVars, obsVars>>

\* ------------------------------------------------------------------------
\* Orchestrator.Run, the verification check and process exit
\* (orchestrator.go, main.go)
\* ------------------------------------------------------------------------
\* a terminate/interrupt signal arrives
ShutdownSignal ==
    /\ pc = "run"
    /\ ~cancelled
    /\ cancelled' = TRUE
    /\ UNCHANGED <<libVars, mmVars, hbVars, hostVars, mode, Version, parent, pc, umTask, vTask, umVars, obsVars>>

\* RunHealthCheck: currently does nothing
RunHealthCheck == TRUE

\* VerificationRunCheck, lines 139-144: the symlink after os.Symlink and
\* os.Rename ended as symlinkOk and renameOk say
SymlinkAlwaysReplacedMutant(old, own, symlinkOk, renameOk) == own

SymlinkAfter(old, own, symlinkOk, renameOk) ==
    IF symlinkOk /\ renameOk THEN own ELSE old

TargetBinaryNewestMutant(version) == VC

\* line 133: the binary the symlink is made to point at,
\* bin/shem-orchestrator-<Version>, named by its version
TargetBinary(version) == version

\* the verification timer task: VerificationRunCheck after the 10 minutes
VerificationRunCheck ==
    /\ pc = "run"
    /\ vTask = "wait"
    /\ RunHealthCheck
    /\ \E removeOk \in BOOLEAN, symlinkOk \in BOOLEAN, renameOk \in BOOLEAN :
        /\ IF removeOk /\ RemoveFromBlacklistFound(blacklist["orchestrator"], Version)
             THEN \E content \in RemoveFromBlacklist(blacklist["orchestrator"], Version) :
                     blacklist' = [blacklist EXCEPT !["orchestrator"] = content]
             ELSE UNCHANGED blacklist
        /\ symlink' = SymlinkAfter(symlink, TargetBinary(Version), symlinkOk, renameOk)
    /\ vTask' = "checked"
    /\ cancelled' = TRUE
    /\ UNCHANGED <<libVars, mmVars, hbVars, binFiles, currentVersionFile, localTags, registry,
                   mode, Version, parent, pc, umTask, umVars, obsVars>>

\* the verification timer task returns on ctx.Done()
VerificationTaskCancelled ==
    /\ pc = "run"
    /\ vTask = "wait"
    /\ cancelled
    /\ vTask' = "done"
    /\ UNCHANGED <<libVars, mmVars, hbVars, hostVars, mode, Version, parent, pc, cancelled, umTask, umVars, obsVars>>

\* os.Exit(status) as the parent of the process sees it
ExitStatus(code) == code % 256

ParentExitAlwaysOneMutant(childEnd) == IF childEnd.code = 0 THEN 0 ELSE 1

\* executeVerificationRun, lines 163-175: the parent's exit status for the
\* way the child ended; a child killed by a signal has ExitCode() = -1
executeVerificationRunExit(childEnd) ==
    IF childEnd.kind = "signal" THEN ExitStatus(-1)
    ELSE IF childEnd.code # 0 THEN ExitStatus(childEnd.code)
    ELSE 0

\* the process ends; the parent waiting in executeVerificationRun exits too
ProcessEnds(childEnd) ==
    /\ IF mode = "verify"
         THEN /\ lastExit' = [child |-> Version, kind |-> childEnd.kind,
                              childCode |-> childEnd.code,
                              parentCode |-> executeVerificationRunExit(childEnd),
                              promoted |-> vTask = "checked",
                              symlinkBefore |-> lastPhase0.symlink, symlinkAfter |-> symlink]
              /\ failedRuns' = IF childEnd.code # 0 /\ vTask # "checked"
                                 THEN failedRuns \cup {Version} ELSE failedRuns
         ELSE UNCHANGED <<lastExit, failedRuns>>
    /\ mode' = "none" /\ Version' = NoVersion /\ parent' = NoVersion /\ pc' = "none"
    /\ cancelled' = FALSE /\ umTask' = "none" /\ vTask' = "none" /\ hbTask' = "none"
    /\ ResetProcess
    /\ UNCHANGED <<libVars, mmVars, notifySocket, hostVars, lastPhase0, runs, starts>>

\* Orchestrator.Run returns after wg.Wait() and main returns
RunReturns ==
    /\ pc = "run"
    /\ cancelled
    /\ umTask = "done"
    /\ hbTask \in {"none", "done"}
    /\ vTask \in {"none", "checked", "done"}
    /\ ProcessEnds([kind |-> "exit", code |-> 0])

\* the process dies: it exits with a non-zero status or is killed
ProcessDies ==
    /\ pc = "run"
    /\ \E childEnd \in {[kind |-> "exit", code |-> 2], [kind |-> "signal", code |-> 137]} :
        ProcessEnds(childEnd)

\* the check cycles a process of the self-update runs get to
checkCycle == cycles < MaxLifeCycles /\ checkAndScheduleUpdates

Next ==
    \/ HostStart
    \/ Phase0
    \/ checkCycle
    \/ \E m \in Modules : DeferredTask(m)
    \/ updateModule
    \/ updateManagerStops
    \/ ShutdownSignal
    \/ VerificationRunCheck
    \/ VerificationTaskCancelled
    \/ RunReturns
    \/ ProcessDies

Spec == Init /\ [][Next]_vars

\* one process from its start to its end
EngineStart == starts = 0 /\ HostStart

NextEngine ==
    \/ EngineStart
    \/ Phase0
    \/ checkAndScheduleUpdates
    \/ OperatorWritesCurrentVersion
    \/ \E m \in Modules : DeferredTask(m)
    \/ updateModule
    \/ updateManagerStops
    \/ ShutdownSignal
    \/ VerificationRunCheck
    \/ VerificationTaskCancelled
    \/ RunReturns
    \/ ProcessDies

SpecEngine == InitEngine /\ [][NextEngine]_vars

\* <-ctx.Done() is ready
CtxDoneNeverMutant == FALSE

CtxDone == cancelled

\* HeartbeatService.Run returns on ctx.Done(); sending a heartbeat changes
\* nothing the program reads
HeartbeatStops ==
    /\ pc = "run"
    /\ hbTask = "run"
    /\ CtxDone
    /\ hbTask' = "done"
    /\ UNCHANGED <<libVars, mmVars, notifySocket, hostVars, procVars, umVars, obsVars>>

\* a process with or without the watchdog that finds an update of itself, or
\* a process with the watchdog that finds a candidate binary in bin/ and,
\* in its verification run, an update of app
InitCancel ==
    /\ symlink = VA
    /\ currentVersionFile = [m \in Modules |-> VA]
    /\ blacklist = [m \in Modules |-> <<>>]
    /\ localTags = [m \in Modules |-> {}]
    /\ \/ /\ binFiles = {VA}
          /\ registry = [m \in Modules |->
                           IF m = "orchestrator" THEN (VC :> GoodLabels(m, VC))
                           ELSE EmptyRegistry]
          /\ notifySocket \in BOOLEAN
       \/ /\ binFiles = {VA, VB}
          /\ registry = [m \in Modules |->
                           IF m = "app" THEN (VB :> GoodLabels(m, VB)) ELSE EmptyRegistry]
          /\ notifySocket = TRUE
    /\ InitProcess
    /\ MMIdle
    /\ LibIdle

NextCancel ==
    \/ NextEngine
    \/ HeartbeatStops

\* every task is scheduled again and again, and a select with ctx.Done()
\* ready takes that case sooner or later
SpecCancel ==
    /\ InitCancel
    /\ [][NextCancel]_vars
    /\ WF_vars(updateManagerStops)
    /\ WF_vars(HeartbeatStops)
    /\ WF_vars(VerificationTaskCancelled)
    /\ WF_vars(RunReturns)

\* ------------------------------------------------------------------------
\* The self-update with a newest version whose verification run fails and a
\* next-older one whose run passes, on a host where nothing else fails
\* ------------------------------------------------------------------------
\* Phase 0 reads and writes the blacklist and starts the candidate
Phase0Succeeds ==
    /\ Phase0
    /\ mode = "normal" => /\ lastPhase0'.readOk
                          /\ ~lastPhase0'.addFailed
                          /\ ~lastPhase0'.startFailed

\* a check cycle in which every podman command succeeds
CheckCycleSucceeds ==
    /\ checkCycle
    /\ \A m \in Modules :
         /\ lastCycle'[m] = {}
         /\ scheduledUpdates'[m] # scheduledUpdates[m]
              => scheduledUpdates'[m] \in findLocalVersions(m)'

\* updateModule lists the local versions and extracts the binary
UpdateModuleSucceeds ==
    /\ updateModule
    /\ findLocalVersions(Head(updateChannel)) # {} => lastUpdate'.newest # NoVersion
    /\ (lastUpdate'.newer /\ lastUpdate'.module = "orchestrator") => lastUpdate'.extracted

\* the verification run of VB passes its check: the blacklist entry is
\* removed and the symlink replaced
CheckPasses ==
    /\ Version = VB
    /\ VerificationRunCheck
    /\ symlink' = Version
    /\ Version \notin GetBlacklistedVersions(blacklist'["orchestrator"])

\* the verification run of VC fails
CandidateFails ==
    /\ mode = "verify"
    /\ Version = VC
    /\ ProcessDies

\* the orchestrator's registry offers VB and VC, or VB alone; app's offers
\* an update or none
InitFallback ==
    /\ symlink = VA
    /\ currentVersionFile = [m \in Modules |-> VA]
    /\ binFiles = {VA}
    /\ blacklist = [m \in Modules |-> <<>>]
    /\ localTags = [m \in Modules |-> {}]
    /\ registry \in
         {[m \in Modules |->
              IF m = "orchestrator" THEN [v \in vs |-> GoodLabels(m, v)]
              ELSE [v \in as |-> GoodLabels(m, v)]] :
              vs \in {{VB, VC}, {VB}}, as \in {{}, {VB}}}
    /\ InitProcess
    /\ NoWatchdog
    /\ MMIdle
    /\ LibIdle

NextFallback ==
    \/ HostRestarts
    \/ Phase0Succeeds
    \/ CheckCycleSucceeds
    \/ \E m \in Modules : DeferredTask(m)
    \/ UpdateModuleSucceeds
    \/ updateManagerStops
    \/ RunReturns
    \/ CheckPasses
    \/ CandidateFails

\* check cycles, deferred tasks, the tasks of a process and host restarts
\* are scheduled fairly; the check of VB's run fires and VC's run fails
SpecFallback ==
    /\ InitFallback
    /\ [][NextFallback]_vars
    /\ WF_vars(HostRestarts)
    /\ WF_vars(Phase0Succeeds)
    /\ WF_vars(CheckCycleSucceeds)
    /\ \A m \in Modules : WF_vars(DeferredTask(m))
    /\ WF_vars(UpdateModuleSucceeds)
    /\ WF_vars(updateManagerStops)
    /\ WF_vars(RunReturns)
    /\ WF_vars(CheckPasses)
    /\ WF_vars(CandidateFails)

\* ------------------------------------------------------------------------
\* checkAndScheduleUpdates, one iteration of its retry loop at a time
\* ------------------------------------------------------------------------
\* ListModules: the module directories in the order os.ReadDir returns them
CheckOrder == <<"app", "orchestrator">>

\* checkAndScheduleUpdates is called, lines 521-531
CycleStarts ==
    /\ Running
    /\ retry.phase = "idle"
    /\ cycles < MaxCycles
    /\ cycles' = cycles + 1
    /\ retry' = [NoRetry EXCEPT !.phase = "enter", !.todo = CheckOrder]
    /\ UNCHANGED <<mmVars, hbVars, hostVars, procVars, umVars, verified, lastCycle, lastSelect,
                   lastUpdate, lastPhase0, lastExit, runs, failedRuns, starts,
                   watchVars, blVars, rtVars, streamVars, verifyVars, wmVars>>

\* lines 532-568 for the next module of the list: its configuration, minimum
\* version and blacklist are read, and the module is passed over when one of
\* the reads fails; after the last module the cycle returns
ModuleEnters ==
    /\ retry.phase = "enter"
    /\ IF retry.todo = <<>>
         THEN retry' = [retry EXCEPT !.phase = "idle"]
         ELSE \E readOk \in BOOLEAN :
                LET m == Head(retry.todo)
                IN  retry' = IF readOk
                               THEN [phase |-> "loop", todo |-> retry.todo,
                                     minimum |-> MinimumVersion(m),
                                     bl |-> GetBlacklistedVersions(blacklist[m]),
                                     remote |-> findRemoteVersions(m), attempts |-> <<>>]
                               ELSE [retry EXCEPT !.todo = Tail(@), !.attempts = <<>>,
                                                  !.remote = {}]
    /\ UNCHANGED <<mmVars, hbVars, hostVars, procVars, umVars, obsVars,
                   watchVars, blVars, rtVars, streamVars, verifyVars, wmVars>>

\* one pass of the loop of lines 570-603: no eligible version (break), a
\* failed verifyAndPullImage (the version joins the cycle's blacklist,
\* continue), or a version verified, pulled and scheduled (break)
RetryIteration ==
    /\ retry.phase = "loop"
    /\ LET m == Head(retry.todo)
       IN  \E latestVersion \in findLatestEligibleVersion(findRemoteVersions(m), retry.minimum,
                                                          retry.bl) :
             IF latestVersion = NoVersion
               THEN /\ retry' = [retry EXCEPT !.phase = "enter", !.todo = Tail(@)]
                    /\ UNCHANGED <<localTags, scheduledUpdates, timers, verified>>
               ELSE \E o \in Outcomes :
                      /\ verified' = verified \cup (IF verifyAndPullPasses(m, latestVersion, o)
                                                      THEN {<<m, latestVersion>>} ELSE {})
                      /\ IF ~verifyAndPullImage(m, latestVersion, o)
                           THEN /\ retry' = [retry EXCEPT
                                      !.bl = BlacklistAfterFailure(@, latestVersion),
                                      !.attempts = Append(@, latestVersion)]
                                /\ UNCHANGED <<localTags, scheduledUpdates, timers>>
                           ELSE /\ retry' = [retry EXCEPT
                                      !.phase = "enter", !.todo = Tail(@),
                                      !.attempts = Append(@, latestVersion)]
                                /\ localTags' = [localTags EXCEPT
                                      ![m] = PulledTags(m, @, latestVersion, o)]
                                /\ scheduledUpdates' =
                                      IF SchedulesUpdate(m)
                                        THEN [scheduledUpdates EXCEPT ![m] = latestVersion]
                                        ELSE scheduledUpdates
                                /\ timers' = IF SchedulesUpdate(m)
                                               THEN [timers EXCEPT ![m] = @ + 1] ELSE timers
    /\ UNCHANGED <<mmVars, hbVars, symlink, binFiles, blacklist, currentVersionFile, registry,
                   procVars, updateChannel, lastCycle, lastSelect, lastUpdate, lastPhase0,
                   lastExit, runs, failedRuns, starts, cycles,
                   watchVars, blVars, rtVars, streamVars, verifyVars, wmVars>>

\* a running process, normal or verification run, over registries with
\* versions that pass and versions that fail verification
InitRetry ==
    /\ symlink = VA
    /\ binFiles = {VA}
    /\ currentVersionFile = [m \in Modules |-> VA]
    /\ blacklist \in {[m \in Modules |-> <<>>],
                      [m \in Modules |-> IF m = "app" THEN <<VB, NL>> ELSE <<>>]}
    /\ localTags = [m \in Modules |-> {}]
    /\ registry \in
         {[m \in Modules |->
              IF m = "orchestrator" THEN (VB :> lb) @@ (VC :> lc)
              ELSE [v \in vs |-> GoodLabels(m, v)]] :
              lb \in {GoodLabels("orchestrator", VB), SwappedDigestLabels("orchestrator", VB)},
              lc \in {GoodLabels("orchestrator", VC), UnsignedLabels("orchestrator", VC)},
              vs \in {{VA}, {VA, VB, V05}, {VB, VC}}}
    /\ mode \in {"normal", "verify"}
    /\ Version = VA
    /\ parent = NoVersion
    /\ pc = "run"
    /\ cancelled = FALSE
    /\ umTask = "run"
    /\ vTask = IF mode = "verify" THEN "wait" ELSE "none"
    /\ hbTask = "none"
    /\ NoWatchdog
    /\ FreshProcess
    /\ lastPhase0 = NoPhase0
    /\ lastExit = NoExit
    /\ runs = [v \in {VB, VC} |-> 0]
    /\ failedRuns = {}
    /\ starts = 1
    /\ MMIdle
    /\ LibIdle

NextRetry ==
    \/ CycleStarts
    \/ ModuleEnters
    \/ RetryIteration

\* the goroutine of UpdateManager.Run goes on with the cycle it is in
SpecRetry ==
    /\ InitRetry
    /\ [][NextRetry]_vars
    /\ WF_vars(ModuleEnters)
    /\ WF_vars(RetryIteration)

\* the update engine with updates of both modules to schedule: app's registry
\* holds two newer versions, the orchestrator's holds one
InitQueue ==
    /\ symlink = VA
    /\ currentVersionFile = [m \in Modules |-> VA]
    /\ binFiles = {VA, VB}
    /\ blacklist = [m \in Modules |-> <<>>]
    /\ localTags = [m \in Modules |-> {}]
    /\ registry = [m \in Modules |->
                     IF m = "orchestrator" THEN (VC :> GoodLabels(m, VC))
                     ELSE (VB :> GoodLabels(m, VB)) @@ (VC :> GoodLabels(m, VC))]
    /\ InitProcess
    /\ NoWatchdog
    /\ MMIdle
    /\ LibIdle

\* the goroutines of scheduleUpdate wake up after their sleep, and the select
\* of UpdateManager.Run takes a name that is waiting in the channel
SpecQueue ==
    /\ InitQueue
    /\ [][NextEngine]_vars
    /\ \A m \in Modules : WF_vars(DeferredTask(m))
    /\ WF_vars(updateModule)

\* ------------------------------------------------------------------------
\* The module supervisor (module_manager.go), its children and podman
\* ------------------------------------------------------------------------
engineVars == <<symlink, binFiles, blacklist, localTags, registry, procVars, hbVars, umVars,
                obsVars>>

\* the supervisor starts over the module directories and the containers an
\* earlier process left behind
InitMM ==
    /\ symlink = VA
    /\ binFiles = {VA}
    /\ blacklist = [m \in Modules |-> <<>>]
    /\ localTags = [m \in Modules |->
                       IF m = "app"
                         THEN {[version |-> v, arch |-> HostArch, digest |-> DigestOf(v)] :
                                  v \in {VA, VB}}
                         ELSE {}]
    /\ registry = [m \in Modules |-> EmptyRegistry]
    /\ InitProcess
    /\ NoWatchdog
    /\ currentVersionFile \in {[n \in ModuleDirs |-> IF n = "app" THEN v ELSE VA] :
                                  v \in {NoVersion, VA}}
    /\ imageFile = [n \in ModuleDirs |-> File(ImageOf(n))]
    /\ disabledFile \in {{}, {"app"}}
    /\ restartFile = {}
    /\ modules = [n \in ModuleDirs |-> NoInstance]
    /\ instances = <<>>
    /\ containers \in SUBSET ContainerNames
    /\ mmTask = "run"
    /\ lastSweep = NoSweep
    /\ lastTick = NoTick
    /\ ticks = 0
    /\ edits = 0
    /\ LibIdle

ExpectedNoneMutant(mods) == {}

\* lines 214-219: the container names of the records in the table
Expected(mods) == {mods[n].containerName : n \in {k \in ModuleDirs : mods[k] # NoInstance}}

OrphansKeptMutant(listed, expected, rmFailed) == {}

OrphansIgnoreTableMutant(listed, expected, rmFailed) == listed \ rmFailed

\* lines 222-234: the listed containers podman rm -fi removes
OrphansRemoved(listed, expected, rmFailed) == (listed \ expected) \ rmFailed

\* cleanupOrphanedContainers: podman ps may fail (line 208) and so may each
\* podman rm (line 230)
cleanupOrphanedContainers(by, mods, listOk, rmFailed) ==
    LET expected == Expected(mods)
        removed == IF listOk THEN OrphansRemoved(containers, expected, rmFailed) ELSE {}
    IN  [by |-> by, listOk |-> listOk, before |-> containers, expected |-> expected,
         rmFailed |-> rmFailed, after |-> containers \ removed]

\* the podman run children whose container was removed end
AfterRemoval(insts, removed) ==
    [i \in DOMAIN insts |->
        IF insts[i].status = "running" /\ containerName(insts[i].name) \in removed
          THEN [insts[i] EXCEPT !.status = "exited"]
          ELSE insts[i]]

CloseStdinNoneMutant(insts, ids) == insts

\* instance.stdin.Close()
CloseStdin(insts, ids) ==
    [i \in DOMAIN insts |->
        IF i \in ids THEN [insts[i] EXCEPT !.stdinClosed = TRUE] ELSE insts[i]]

\* reconcile, lines 87-179: what the loop does for one listed module; io is
\* "cfgerr" when reading the configuration fails and "starterr" when
\* startModule returns an error
UpToDateImageOnlyMutant(instance, image, version) == instance.image = image

\* line 141: the running instance has the configured image and version
UpToDate(instance, image, version) ==
    instance.image = image /\ instance.version = version

\* lines 108-179: a module without a disabled file
ReconcileEnabled(name, instance, io) ==
    LET version == currentVersionFile[name]
        image == GetString(imageFile[name])
    IN  IF name \in restartFile /\ instance # NoInstance THEN "stop"
        ELSE IF instance # NoInstance
          THEN IF io = "cfgerr" THEN "skip"
               ELSE IF UpToDate(instance, image, version) THEN "skip"
               ELSE "stop"
        ELSE IF io = "cfgerr" THEN "skip"
        ELSE IF version = NoVersion THEN "skip"
        ELSE IF image = "" THEN "skip"
        ELSE IF io = "starterr" THEN "skip"
        ELSE "start"

ReconcileDisabledIgnoredMutant(name, instance, io) == ReconcileEnabled(name, instance, io)

ReconcileModule(name, instance, io) ==
    IF name \in disabledFile
      THEN IF instance # NoInstance THEN "stop" ELSE "skip"
      ELSE ReconcileEnabled(name, instance, io)

RestartKeptMutant(examined) == {}

\* lines 110-111: the restart files the loop removes
RestartConsumed(examined) == (examined \ disabledFile) \cap restartFile

\* a failure is drawn only where the loop reaches the failing call
FailureMatters(name, io, listModulesOk) ==
    /\ listModulesOk
    /\ name \in ListModules
    /\ ReconcileModule(name, modules[name], io) # ReconcileModule(name, modules[name], "ok")

NoLongerConfiguredNoneMutant(mods, moduleNames) == {}

\* lines 181-199: the names in the table that are not among the listed modules
NoLongerConfigured(mods, moduleNames) ==
    {n \in ModuleDirs : mods[n] # NoInstance /\ n \notin moduleNames}

\* one call of reconcile: the orphan sweep, the loop over the listed
\* modules, and the stop of the instances no longer listed
reconcile ==
    /\ mmTask = "run"
    /\ ticks < MaxTicks
    /\ \E listOk \in BOOLEAN, listModulesOk \in BOOLEAN :
       \E rmFailed \in SUBSET (IF listOk THEN containers \ Expected(modules) ELSE {}),
          io \in {f \in [Supervised -> {"ok", "cfgerr", "starterr"}] :
                     \A n \in Supervised : f[n] # "ok" => FailureMatters(n, f[n], listModulesOk)} :
        LET sweep == cleanupOrphanedContainers("reconcile", modules, listOk, rmFailed)
            moduleNames == IF listModulesOk THEN ListModules ELSE {}
            examined == moduleNames \cap Supervised
            does(n) == ReconcileModule(n, modules[n], io[n])
            stopped == {n \in examined : does(n) = "stop"}
                       \cup (IF listModulesOk
                               THEN NoLongerConfigured(modules, moduleNames)
                               ELSE {})
            started == SelectSeq(SupervisedOrder, LAMBDA n : n \in examined /\ does(n) = "start")
            idOf(n) == Len(instances) + CHOOSE k \in 1..Len(started) : started[k] = n
            spawned == {started[k] : k \in 1..Len(started)}
            newModules ==
                [n \in ModuleDirs |->
                    IF n \in stopped THEN NoInstance
                    ELSE IF n \in spawned
                      THEN ModuleInstance(idOf(n), n, GetString(imageFile[n]), currentVersionFile[n])
                    ELSE modules[n]]
            children ==
                [k \in 1..Len(started) |->
                    [name |-> started[k], status |-> "starting", stdinClosed |-> FALSE]]
        IN  /\ Len(instances) + Len(started) <= MaxSpawns
            /\ containers' = sweep.after
            /\ lastSweep' = sweep
            /\ restartFile' = restartFile \ RestartConsumed(examined)
            /\ modules' = newModules
            /\ instances' = CloseStdin(AfterRemoval(instances, containers \ sweep.after),
                                       {modules[n].id : n \in stopped}) \o children
            /\ lastTick' = [listed |-> listModulesOk, stopped |-> stopped, spawned |-> spawned,
                            records |-> {n \in ModuleDirs : newModules[n] # NoInstance},
                            containers |-> sweep.after, sweep |-> sweep,
                            table |-> modules, examined |-> examined,
                            disabled |-> examined \cap disabledFile,
                            restart |-> examined \cap restartFile,
                            config |-> [n \in Supervised |->
                                          [image |-> GetString(imageFile[n]),
                                           version |-> currentVersionFile[n]]],
                            io |-> io,
                            followsRestart |->
                                {n \in lastTick.restart \ lastTick.disabled :
                                    lastTick.table[n] # NoInstance}]
    /\ ticks' = ticks + 1
    /\ UNCHANGED <<libVars, engineVars, currentVersionFile, imageFile, disabledFile, mmTask, edits>>

\* podman run creates the container of a started child; --replace removes a
\* container that holds the name
ContainerStarts(i) ==
    /\ instances[i].status = "starting"
    /\ instances' =
         [j \in DOMAIN instances |->
             IF j = i THEN [instances[j] EXCEPT !.status = "running"]
             ELSE IF instances[j].name = instances[i].name /\ instances[j].status = "running"
               THEN [instances[j] EXCEPT !.status = "exited"]
             ELSE instances[j]]
    /\ containers' = containers \cup {containerName(instances[i].name)}
    /\ UNCHANGED <<libVars, engineVars, currentVersionFile, imageFile, disabledFile, restartFile,
                   modules, mmTask, lastSweep, lastTick, ticks, edits>>

\* the podman run child ends: its container could not be created, or it ran
\* and ended, and --rm removed it
ChildExits(i) ==
    /\ instances[i].status \in {"starting", "running"}
    /\ instances' = [instances EXCEPT ![i].status = "exited"]
    /\ containers' = IF instances[i].status = "running"
                       THEN containers \ {containerName(instances[i].name)}
                       ELSE containers
    /\ UNCHANGED <<libVars, engineVars, currentVersionFile, imageFile, disabledFile, restartFile,
                   modules, mmTask, lastSweep, lastTick, ticks, edits>>

\* watchModule returns after cmd.Wait(); its deferred function deletes the
\* table's entry of the instance's name (lines 302-306)
watchModule(i) ==
    /\ instances[i].status = "exited"
    /\ instances' = [instances EXCEPT ![i].status = "reaped"]
    /\ modules' = [modules EXCEPT ![instances[i].name] = NoInstance]
    /\ UNCHANGED <<libVars, engineVars, currentVersionFile, imageFile, disabledFile, restartFile,
                   containers, mmTask, lastSweep, lastTick, ticks, edits>>

\* the operator changes a module directory
OperatorEdits ==
    /\ mmTask = "run"
    /\ edits < MaxEdits
    /\ edits' = edits + 1
    /\ \E n \in Supervised :
        \/ /\ disabledFile' = IF n \in disabledFile THEN disabledFile \ {n}
                                                    ELSE disabledFile \cup {n}
           /\ UNCHANGED <<restartFile, currentVersionFile, imageFile>>
        \/ /\ n \notin restartFile
           /\ restartFile' = restartFile \cup {n}
           /\ UNCHANGED <<disabledFile, currentVersionFile, imageFile>>
        \/ /\ \E v \in {NoVersion, VA, VB} \ {currentVersionFile[n]} :
                 currentVersionFile' = [currentVersionFile EXCEPT ![n] = v]
           /\ UNCHANGED <<disabledFile, restartFile, imageFile>>
        \/ /\ \E f \in {NoFile, File(""), File(ImageOf(n))} \ {imageFile[n]} :
                 imageFile' = [imageFile EXCEPT ![n] = f]
           /\ UNCHANGED <<disabledFile, restartFile, currentVersionFile>>
    /\ UNCHANGED <<libVars, engineVars, modules, instances, containers, mmTask, lastSweep, lastTick, ticks>>

\* ModuleManager.Run observes ctx.Done(): stopAllModules closes every
\* child's stdin, clears the table and sweeps
stopAllModules ==
    /\ mmTask = "run"
    /\ \E listOk \in BOOLEAN :
       \E rmFailed \in SUBSET (IF listOk THEN containers ELSE {}) :
        LET cleared == [n \in ModuleDirs |-> NoInstance]
            sweep == cleanupOrphanedContainers("stopAllModules", cleared, listOk, rmFailed)
        IN  /\ modules' = cleared
            /\ containers' = sweep.after
            /\ lastSweep' = sweep
            /\ instances' = AfterRemoval(
                               CloseStdin(instances,
                                          {modules[n].id : n \in {k \in ModuleDirs :
                                                                    modules[k] # NoInstance}}),
                               containers \ sweep.after)
    /\ mmTask' = "stopped"
    /\ UNCHANGED <<libVars, engineVars, currentVersionFile, imageFile, disabledFile, restartFile,
                   lastTick, ticks, edits>>

NextMM ==
    \/ reconcile
    \/ \E i \in DOMAIN instances : ContainerStarts(i)
    \/ \E i \in DOMAIN instances : ChildExits(i)
    \/ \E i \in DOMAIN instances : watchModule(i)
    \/ OperatorEdits
    \/ stopAllModules

SpecMM == InitMM /\ [][NextMM]_vars

\* ------------------------------------------------------------------------
\* Message names (shemmsg.go) and the watcher's qualification
\* (module_manager.go)
\* ------------------------------------------------------------------------
MaxNameLength == 100

\* bound on the number of pieces a modelled name is made of
MaxNamePieces == 2

\* a name is a sequence of pieces: single characters, and one piece that
\* stands for a run of MaxNameLength letters
LongRun == "RUN100"

NamePieces == {"a", "_", "-", ".", LongRun}

PieceLen(c) == IF c = LongRun THEN MaxNameLength ELSE 1

RECURSIVE NameLen(_)
NameLen(name) == IF name = <<>> THEN 0 ELSE PieceLen(Head(name)) + NameLen(Tail(name))

\* the names of at most MaxNamePieces pieces with at most one long run
Names ==
    {n \in UNION {[1..k -> NamePieces] : k \in 0..MaxNamePieces} :
        Cardinality({i \in DOMAIN n : n[i] = LongRun}) <= 1}

isNameCharAnyMutant(c) == TRUE

\* isNameChar, lines 349-354
isNameChar(c) == c \in {"a", "e", "x", "0", "1", "9", "_", LongRun}

\* ValidateNamePart, lines 313-329
ValidateNamePart(name) ==
    /\ NameLen(name) # 0
    /\ NameLen(name) <= MaxNameLength
    /\ \A i \in DOMAIN name : isNameChar(name[i])

\* strings.Index(name, "."): 0 when there is no dot
IndexDot(name) ==
    IF \E i \in DOMAIN name : name[i] = "."
      THEN CHOOSE i \in DOMAIN name :
               name[i] = "." /\ \A j \in 1..(i - 1) : name[j] # "."
      ELSE 0

\* SplitName, lines 299-309: <<module, variable>>
SplitName(name) ==
    LET idx == IndexDot(name)
    IN  IF idx = 0 THEN <<<<>>, name>>
        ELSE <<SubSeq(name, 1, idx - 1), SubSeq(name, idx + 1, Len(name))>>

\* ValidateName, lines 332-347
ValidateName(name) ==
    /\ ~(Len(name) > 0 /\ name[1] = ".")
    /\ ValidateNamePart(SplitName(name)[2])
    /\ SplitName(name)[1] = <<>> \/ ValidateNamePart(SplitName(name)[1])

\* ListModules returns the name of every directory under modules/ that holds
\* an image file; a directory entry is never empty, "." or ".."
DirectoryNames == (Names \ {<<>>, <<".">>, <<".", ".">>})

\* watchModule, line 333: instance.name + "." + msg.Name
Qualify(instanceName, msgName) == instanceName \o <<".">> \o msgName

EngineIdle ==
    /\ symlink = VA
    /\ binFiles = {VA}
    /\ blacklist = [m \in Modules |-> <<>>]
    /\ currentVersionFile = [m \in Modules |-> VA]
    /\ localTags = [m \in Modules |-> {}]
    /\ registry = [m \in Modules |-> EmptyRegistry]
    /\ InitProcess
    /\ NoWatchdog

\* bound on the number of lines of the subscriber's inputs file
MaxInputLines == 2

\* a line of an inputs file: MODULE.VAR [LOCAL], "*" for any module or any
\* variable; no LOCAL is <<>>
Star == <<"*">>

Pattern(m, v, l) == [module |-> m, variable |-> v, local |-> l]

Patterns ==
    {Pattern(Star, Star, <<>>), Pattern(<<"a">>, Star, <<>>), Pattern(<<"a">>, <<"a">>, <<"x">>),
     Pattern(<<"_">>, <<"a">>, <<>>)}

InputsFiles == UNION {[1..k -> Patterns] : k \in 0..MaxInputLines}

\* startModule has started a child for a listed directory and watches it
InitWatch ==
    /\ EngineIdle
    /\ MMIdle
    /\ watched \in DirectoryNames
    /\ passedOn = NoName
    /\ inputs \in InputsFiles
    /\ stdinWritten = <<>>
    /\ BlIdle
    /\ WatcherIdle
    /\ RetryIdle
    /\ VerifyIdle
    /\ CodecIdle

\* watchModule, lines 315-338: one round of the stdout loop; Parse accepts
\* the message only if ValidateName accepts its name. The qualified message
\* is logged; nothing is written to the stdin of any child (line 337)
watchStdout ==
    /\ \E name \in Names :
         IF ValidateName(name) /\ ValidateNamePart(name)
           THEN passedOn' = [child |-> watched, original |-> name,
                             name |-> Qualify(watched, name)]
           ELSE passedOn' = passedOn
    /\ UNCHANGED <<engineVars, currentVersionFile, mmVars, verifyVars, wmVars, retryVars, watched, inputs, stdinWritten,
                   blVars, rtVars, streamVars>>

NextWatch == watchStdout

SpecWatch == InitWatch /\ [][NextWatch]_vars

\* ------------------------------------------------------------------------
\* Sequences of blacklist calls on one module (config.go)
\* ------------------------------------------------------------------------
MaxBlOps == 3

\* the versions the calls are made with; 0.0.05 and 0.0.5 compare equal
BlVersions == {VA, VB, VC, V05}

InitBlacklist ==
    /\ EngineIdle
    /\ MMIdle
    /\ LibIdle

\* mc.AddToBlacklist(version) on module app; os.WriteFile can fail
CallAddToBlacklist ==
    /\ blOps < MaxBlOps
    /\ blOps' = blOps + 1
    /\ \E version \in BlVersions, writeOk \in BOOLEAN :
        \E content \in AddToBlacklist(blacklist["app"], version) :
            /\ blacklist' = [blacklist EXCEPT !["app"] = IF writeOk THEN content ELSE @]
            /\ netMembers' = IF writeOk THEN netMembers \cup {version} ELSE netMembers
            /\ lastBl' = [op |-> "add", version |-> version, err |-> ~writeOk,
                          before |-> blacklist["app"], after |-> blacklist'["app"]]
    /\ UNCHANGED <<symlink, binFiles, currentVersionFile, localTags, registry, procVars,
                   hbVars, umVars, obsVars, mmVars, watchVars, rtVars, streamVars,
                   verifyVars, wmVars, retryVars>>

\* mc.RemoveFromBlacklist(version) on module app
CallRemoveFromBlacklist ==
    /\ blOps < MaxBlOps
    /\ blOps' = blOps + 1
    /\ \E version \in BlVersions, writeOk \in BOOLEAN :
        \E content \in RemoveFromBlacklist(blacklist["app"], version) :
            LET done == RemoveFromBlacklistFound(blacklist["app"], version) /\ writeOk
            IN  /\ blacklist' = [blacklist EXCEPT !["app"] = IF done THEN content ELSE @]
                /\ netMembers' = IF done THEN netMembers \ {version} ELSE netMembers
                /\ lastBl' = [op |-> "remove", version |-> version, err |-> ~done,
                              before |-> blacklist["app"], after |-> blacklist'["app"]]
    /\ UNCHANGED <<symlink, binFiles, currentVersionFile, localTags, registry, procVars,
                   hbVars, umVars, obsVars, mmVars, watchVars, rtVars, streamVars,
                   verifyVars, wmVars, retryVars>>

NextBlacklist ==
    \/ CallAddToBlacklist
    \/ CallRemoveFromBlacklist

SpecBlacklist == InitBlacklist /\ [][NextBlacklist]_vars

\* ------------------------------------------------------------------------
\* Message codec (shemmsg.go): values, Encode and Parse
\* ------------------------------------------------------------------------
MaxMessageBytes == 10000

TimeStepMinutes == 5

\* a Value is missing or the float64 nearest to (+/-)(ip + fp/10000); neg is
\* the sign bit, which a zero keeps
Missing == [missing |-> TRUE, neg |-> FALSE, ip |-> 0, fp |-> 0]

Float(neg, ip, fp) == [missing |-> FALSE, neg |-> neg, ip |-> ip, fp |-> fp]

\* the lines of a message body and of a stream
EmptyLine == [kind |-> "empty"]

MissingText == [kind |-> "missing"]

\* sign, integer digits, ".", three fraction digits
NumberText(neg, ip, milli) == [kind |-> "number", neg |-> neg, ip |-> ip, milli |-> milli]

\* type " " name
HeaderLine(type, name) == [kind |-> "header", type |-> type, name |-> name]

\* 2025-12-06T08:mm
StampLine(minute) == [kind |-> "stamp", minute |-> minute]

\* any other non-empty line, byte by byte; the bytes are characters, the
\* words "missing" and "pointvalue" written as one piece, and bytes outside
\* the character set: carriage return, tab, NUL, 0x7F and 0x80
TextLine(chars) == [kind |-> "text", chars |-> chars]

BadBytes == {"CR", "TAB", "NUL", "DEL", "x80"}

Words == {"missing", "pointvalue"}

\* len of a piece of text
TokenLen(c) == IF c = "missing" THEN 7 ELSE IF c = "pointvalue" THEN 10 ELSE 1

RECURSIVE TextLen(_)
TextLen(chars) == IF chars = <<>> THEN 0 ELSE TokenLen(Head(chars)) + TextLen(Tail(chars))

\* unicode.IsSpace on the bytes that occur
IsSpace(c) == c \in {" ", "TAB", "CR"}

IsDigit(c) == c \in {"0", "1", "9"}

\* strings.TrimSpace
RECURSIVE TrimLeft(_)
TrimLeft(chars) ==
    IF chars # <<>> /\ IsSpace(Head(chars)) THEN TrimLeft(Tail(chars)) ELSE chars

RECURSIVE TrimRight(_)
TrimRight(chars) ==
    IF chars # <<>> /\ IsSpace(chars[Len(chars)])
      THEN TrimRight(SubSeq(chars, 1, Len(chars) - 1))
      ELSE chars

TrimSpace(chars) == TrimRight(TrimLeft(chars))

\* the length of the first field of chars, which starts with no space
RECURSIVE FieldLen(_)
FieldLen(chars) ==
    IF chars = <<>> \/ IsSpace(Head(chars)) THEN 0 ELSE 1 + FieldLen(Tail(chars))

\* strings.Fields
RECURSIVE Fields(_)
Fields(chars) ==
    IF TrimLeft(chars) = <<>> THEN <<>>
    ELSE LET t == TrimLeft(chars)
             k == FieldLen(t)
         IN  <<SubSeq(t, 1, k)>> \o Fields(SubSeq(t, k + 1, Len(t)))

\* the number of digits of s from position i on
RECURSIVE DigitsFrom(_, _)
DigitsFrom(s, i) ==
    IF i <= Len(s) /\ IsDigit(s[i]) THEN 1 + DigitsFrom(s, i + 1) ELSE 0

\* the number the n digits of s from position i on stand for
RECURSIVE NumOf(_, _, _)
NumOf(s, i, n) ==
    IF n = 0 THEN 0
    ELSE NumOf(s, i, n - 1) * 10 + (CASE s[i + n - 1] = "0" -> 0
                                      [] s[i + n - 1] = "1" -> 1
                                      [] s[i + n - 1] = "9" -> 9)

\* the limits of isValidNumberFormat, line 145
MaxIntegerDigits == 8

MaxFractionDigits == 3

\* isValidNumberFormat, lines 102-150, byte by byte
ScanNumber(s) ==
    IF Len(s) = 0 THEN [valid |-> FALSE]
    ELSE LET signed == s[1] \in {"+", "-"}
             first == IF signed THEN 2 ELSE 1
             digitsBefore == DigitsFrom(s, first)
             dot == first + digitsBefore
             hasDot == dot <= Len(s) /\ s[dot] = "."
             digitsAfter == IF hasDot THEN DigitsFrom(s, dot + 1) ELSE 0
             i == IF hasDot THEN dot + 1 + digitsAfter ELSE dot
         IN  IF first > Len(s) THEN [valid |-> FALSE]
             ELSE IF i # Len(s) + 1 THEN [valid |-> FALSE]
             ELSE IF digitsBefore + digitsAfter = 0 THEN [valid |-> FALSE]
             ELSE IF digitsBefore > MaxIntegerDigits \/ digitsAfter > MaxFractionDigits
               THEN [valid |-> FALSE]
             ELSE [valid |-> TRUE, neg |-> s[1] = "-", first |-> first,
                   digitsBefore |-> digitsBefore, digitsAfter |-> digitsAfter]

\* strconv.ParseFloat of a text isValidNumberFormat accepts
ParseFloat(s) ==
    LET n == ScanNumber(s)
        milli == NumOf(s, n.first + n.digitsBefore + 1, n.digitsAfter)
    IN  [missing |-> FALSE, neg |-> n.neg,
         ip |-> NumOf(s, n.first, n.digitsBefore),
         fp |-> CASE n.digitsAfter = 0 -> 0
                  [] n.digitsAfter = 1 -> milli * 1000
                  [] n.digitsAfter = 2 -> milli * 100
                  [] n.digitsAfter = 3 -> milli * 10]

FormatFloat3TruncMutant(v) == NumberText(v.neg, v.ip, v.fp \div 10)

\* strconv.FormatFloat(v.value, 'f', 3, 64): rounded to the nearest
\* thousandth
FormatFloat3(v) ==
    LET m == (v.fp + 5) \div 10
    IN  NumberText(v.neg, IF m = 1000 THEN v.ip + 1 ELSE v.ip, m % 1000)

\* Value.String, lines 73-78
ValueString(v) == IF v.missing THEN MissingText ELSE FormatFloat3(v)

\* number of decimal digits of n
Digits(n) ==
    IF n < 10 THEN 1 ELSE IF n < 100 THEN 2 ELSE IF n < 1000 THEN 3
    ELSE IF n < 10000 THEN 4 ELSE IF n < 100000 THEN 5 ELSE IF n < 1000000 THEN 6
    ELSE IF n < 10000000 THEN 7 ELSE IF n < 100000000 THEN 8 ELSE 9

\* isValidNumberFormat, lines 102-150: a text is scanned; a number text has
\* its integer digits and three fraction digits
isValidNumberFormat(s) ==
    IF s.kind = "text" THEN ScanNumber(s.chars).valid
    ELSE s.kind = "number" /\ Digits(s.ip) <= MaxIntegerDigits

NumberAcceptsAllMutant(v) == TRUE

\* Number, lines 49-55: the value is accepted
Number(v) == isValidNumberFormat(ValueString(v))

\* parseValue, lines 80-97
parseValue(s) ==
    IF s.kind = "text"
      THEN LET t == TrimSpace(s.chars)
           IN  IF t = <<"missing">> THEN [ok |-> TRUE, value |-> Missing]
               ELSE IF ~isValidNumberFormat(TextLine(t)) THEN [ok |-> FALSE, value |-> Missing]
               ELSE [ok |-> TRUE, value |-> ParseFloat(t)]
    ELSE IF s.kind = "missing" THEN [ok |-> TRUE, value |-> Missing]
    ELSE IF ~isValidNumberFormat(s) THEN [ok |-> FALSE, value |-> Missing]
    ELSE [ok |-> TRUE, value |-> Float(s.neg, s.ip, s.milli * 10)]

\* len(line)
LineLen(line) ==
    CASE line.kind = "empty" -> 0
      [] line.kind = "missing" -> 7
      [] line.kind = "number" -> (IF line.neg THEN 1 ELSE 0) + Digits(line.ip) + 4
      [] line.kind = "header" -> 10 + 1 + NameLen(line.name)
      [] line.kind = "stamp" -> 16
      [] line.kind = "text" -> TextLen(line.chars)

\* a text is a sequence of blocks, a block being n equal lines in a row;
\* Bytes counts every line with the newline that ends it
RECURSIVE Bytes(_)
Bytes(blocks) ==
    IF blocks = <<>> THEN 0
    ELSE blocks[1].n * (LineLen(blocks[1].line) + 1) + Bytes(Tail(blocks))

RECURSIVE LineCount(_)
LineCount(blocks) ==
    IF blocks = <<>> THEN 0 ELSE blocks[1].n + LineCount(Tail(blocks))

Block(line, n) == [line |-> line, n |-> n]

\* a Message: Name and Payload (PointValue: one value; TimeSeries: StartTime
\* and Values, given as runs of n equal values)
NoStart == [minute |-> 0, second |-> 0]

NoMessage == [name |-> <<>>, type |-> "", start |-> NoStart, values |-> <<>>]

\* PointValue.encodePayload and TimeSeries.encodePayload, lines 208-230
encodePayload(m) ==
    IF m.type = "pointvalue"
      THEN <<Block(ValueString(m.values[1].v), 1)>>
      ELSE <<Block(StampLine(m.start.minute), 1)>>
           \o [i \in 1..Len(m.values) |-> Block(ValueString(m.values[i].v), m.values[i].n)]

\* Message.Encode, lines 189-197
Encode(m) == <<Block(HeaderLine(m.type, m.name), 1)>> \o encodePayload(m)

\* len(m.Encode()): the last line has no newline
EncodeLen(m) == Bytes(Encode(m)) - 1

ParseError(err) == [err |-> err, msg |-> NoMessage]

\* parsePointValue, lines 356-367
parsePointValue(name, lines) ==
    IF LineCount(lines) # 1 THEN ParseError("ErrMissingValue")
    ELSE IF ~parseValue(lines[1].line).ok THEN ParseError("ErrInvalidValue")
    ELSE [err |-> "",
          msg |-> [name |-> name, type |-> "pointvalue", start |-> NoStart,
                   values |-> <<[v |-> parseValue(lines[1].line).value, n |-> 1]>>]]

\* parseTimeSeries, lines 369-396
parseTimeSeries(name, lines) ==
    IF LineCount(lines) < 2 THEN ParseError("ErrMissingTimestamp")
    ELSE IF lines[1].line.kind # "stamp" \/ lines[1].n # 1 THEN ParseError("ErrInvalidTimestamp")
    ELSE IF lines[1].line.minute % TimeStepMinutes # 0 THEN ParseError("ErrInvalidTimestamp")
    ELSE IF \E i \in 2..Len(lines) : ~parseValue(lines[i].line).ok
      THEN ParseError("ErrInvalidValue")
    ELSE [err |-> "",
          msg |-> [name |-> name, type |-> "timeseries",
                   start |-> [minute |-> lines[1].line.minute, second |-> 0],
                   values |-> [i \in 1..(Len(lines) - 1) |->
                                  [v |-> parseValue(lines[i + 1].line).value,
                                   n |-> lines[i + 1].n]]]]

isPrintableASCIIAnyMutant(lines) == TRUE

\* isPrintableASCII, lines 287-295; only a text line holds other bytes
isPrintableASCII(lines) ==
    \A i \in DOMAIN lines :
        lines[i].line.kind = "text" =>
            \A j \in DOMAIN lines[i].line.chars : lines[i].line.chars[j] \notin BadBytes

\* strings.Fields(lines[0])
HeaderFields(line) ==
    CASE line.kind = "header" -> <<<<line.type>>, line.name>>
      [] line.kind = "text" -> Fields(line.chars)
      [] OTHER -> <<<<line.kind>>>>

\* Parse, lines 233-284, of data of `size` bytes whose lines, trailing empty
\* lines removed, are `lines`
Parse(lines, size) ==
    IF size > MaxMessageBytes THEN ParseError("ErrMessageTooLarge")
    ELSE IF ~isPrintableASCII(lines) THEN ParseError("ErrInvalidCharacters")
    ELSE IF lines = <<>> THEN ParseError("ErrEmptyMessage")
    ELSE IF lines[1].n # 1 \/ Len(HeaderFields(lines[1].line)) # 2
      THEN ParseError("expected 'type name'")
    ELSE LET msgType == HeaderFields(lines[1].line)[1]
             name == HeaderFields(lines[1].line)[2]
         IN  IF ~ValidateName(name) THEN ParseError("ErrInvalidName")
             ELSE IF msgType = <<"pointvalue">> THEN parsePointValue(name, Tail(lines))
             ELSE IF msgType = <<"timeseries">> THEN parseTimeSeries(name, Tail(lines))
             ELSE ParseError("ErrUnknownType")

\* ------------------------------------------------------------------------
\* Messages the codec is applied to
\* ------------------------------------------------------------------------
\* the number of "0.000" lines that brings a time series to the size limit
BigRun == (MaxMessageBytes - 46) \div 6

MsgNames ==
    {<<"a">>, <<"a", "a">>, <<"a", ".", "_">>, <<LongRun, ".", LongRun>>, <<"a", "-">>}

\* 0, -0.0003, 1.2346, -802.1, 99999999.999 and 99999999.9996
Floats ==
    {Float(FALSE, 0, 0), Float(TRUE, 0, 3), Float(FALSE, 1, 2346), Float(TRUE, 802, 1000),
     Float(FALSE, 99999999, 9990), Float(FALSE, 99999999, 9996)}

\* the values a caller can hold: Missing() and what Number accepts
Values == {Missing} \cup {v \in Floats : Number(v)}

ValueRuns ==
    {<<>>,
     <<[v |-> Float(FALSE, 1, 2346), n |-> 1]>>,
     <<[v |-> Float(TRUE, 802, 1000), n |-> 1], [v |-> Missing, n |-> 1],
       [v |-> Float(TRUE, 0, 3), n |-> 1]>>,
     <<[v |-> Float(FALSE, 0, 0), n |-> BigRun], [v |-> Missing, n |-> 2]>>,
     <<[v |-> Float(FALSE, 0, 0), n |-> BigRun], [v |-> Missing, n |-> 3]>>}

StartTimes == {[minute |-> 0, second |-> 0], [minute |-> 0, second |-> 30],
               [minute |-> 3, second |-> 0]}

Messages ==
    {[name |-> name, type |-> "pointvalue", start |-> NoStart, values |-> <<[v |-> v, n |-> 1]>>] :
        name \in MsgNames, v \in Values}
    \cup
    {[name |-> name, type |-> "timeseries", start |-> st, values |-> vs] :
        name \in MsgNames, st \in StartTimes, vs \in ValueRuns}

\* a syntactically valid message: valid name, a time series has at least one
\* value and an aligned start, and the body is at most MaxMessageBytes long
ValidMessage(m) ==
    /\ ValidateName(m.name)
    /\ m.type = "timeseries" => (m.values # <<>> /\ m.start.minute % TimeStepMinutes = 0)
    /\ EncodeLen(m) <= MaxMessageBytes

InitRoundTrip ==
    /\ EngineIdle
    /\ MMIdle
    /\ watched = <<>>
    /\ passedOn = NoName
    /\ inputs = <<>>
    /\ stdinWritten = <<>>
    /\ BlIdle
    /\ WatcherIdle
    /\ RetryIdle
    /\ VerifyIdle
    /\ StreamIdle
    /\ rt \in {[done |-> FALSE, m |-> m] : m \in Messages}
    /\ wire = [done |-> FALSE]
    /\ num = [done |-> FALSE]

\* m.Encode(), Parse of the result, and Encode of the parsed message
RoundTrip ==
    /\ ~rt.done
    /\ LET encoded == Encode(rt.m)
           parsed == Parse(encoded, EncodeLen(rt.m))
       IN  rt' = [done |-> TRUE, m |-> rt.m, encoded |-> encoded, parsed |-> parsed,
                  reencoded |-> IF parsed.err = "" THEN Encode(parsed.msg) ELSE <<>>]
    /\ UNCHANGED <<engineVars, currentVersionFile, mmVars, verifyVars, wmVars, retryVars, watchVars, blVars, streamVars,
                   wire, num>>

NextRoundTrip == RoundTrip

SpecRoundTrip == InitRoundTrip /\ [][NextRoundTrip]_vars

\* ------------------------------------------------------------------------
\* Streams of messages (shemmsg.go, Reader and Writer)
\* ------------------------------------------------------------------------
MaxMessages == 2

MaxExtraLines == 2

\* the valid messages written to the stream
StreamMessages ==
    {m \in Messages :
        /\ ValidMessage(m)
        /\ m.name \in {<<"a">>, <<"a", "a">>}
        /\ m.start = NoStart
        /\ m.type = "pointvalue" => m.values[1].v \in {Missing, Float(TRUE, 802, 1000)}
        /\ m.type = "timeseries" => Len(m.values) \in {2, 3}}

\* Writer.Write, lines 482-492: "\n\n", the body, "\n\n", as lines
WriterLines(body) == <<Block(EmptyLine, 2)>> \o body \o <<Block(EmptyLine, 1)>>

\* the empty lines on the stream beyond those Writer.Write puts there
RECURSIVE EmptyLines(_)
EmptyLines(s) ==
    IF s = <<>> THEN 0
    ELSE (IF s[1].line = EmptyLine THEN s[1].n ELSE 0) + EmptyLines(Tail(s))

\* Reader.Read, lines 431-439: the leading empty lines are skipped
RECURSIVE SkipEmpty(_)
SkipEmpty(s) ==
    IF s = <<>> THEN <<>>
    ELSE IF s[1].line = EmptyLine THEN SkipEmpty(Tail(s))
    ELSE s

\* Reader.Read, lines 432-462: lines go to the buffer, each with a newline,
\* up to an empty line or the end of the stream; the buffer's size is checked
\* after every line but the first, which never exceeds the limit alone
RECURSIVE Collect(_, _, _)
Collect(s, buf, bytes) ==
    IF s = <<>> THEN [tooLarge |-> FALSE, buf |-> buf, bytes |-> bytes, rest |-> <<>>]
    ELSE IF s[1].line = EmptyLine
      THEN [tooLarge |-> FALSE, buf |-> buf, bytes |-> bytes,
            rest |-> IF s[1].n > 1 THEN <<Block(EmptyLine, s[1].n - 1)>> \o Tail(s)
                                   ELSE Tail(s)]
    ELSE LET l == LineLen(s[1].line) + 1
             fit == (MaxMessageBytes - bytes) \div l
         IN  IF s[1].n <= fit
               THEN Collect(Tail(s), Append(buf, s[1]), bytes + s[1].n * l)
               ELSE [tooLarge |-> TRUE, buf |-> buf, bytes |-> bytes,
                     rest |-> IF s[1].n > fit + 1
                                THEN <<Block(s[1].line, s[1].n - fit - 1)>> \o Tail(s)
                                ELSE Tail(s)]

\* Reader.Read, lines 428-469
Read(s) ==
    IF SkipEmpty(s) = <<>>
      THEN [result |-> [err |-> "EOF", msg |-> NoMessage], rest |-> <<>>]
    ELSE LET c == Collect(SkipEmpty(s), <<>>, 0)
         IN  IF c.tooLarge
               THEN [result |-> ParseError("ErrMessageTooLarge"), rest |-> c.rest]
               ELSE [result |-> Parse(c.buf, c.bytes), rest |-> c.rest]

InitStream ==
    /\ EngineIdle
    /\ MMIdle
    /\ LibIdle

\* writer.Write(m)
WriterWrite ==
    /\ closed = "open"
    /\ Len(written) < MaxMessages
    /\ \E m \in StreamMessages :
        /\ stream' = stream \o WriterLines(Encode(m))
        /\ written' = Append(written, m)
        /\ framed' = Append(framed, Parse(Encode(m), EncodeLen(m)))
    /\ UNCHANGED <<engineVars, currentVersionFile, mmVars, verifyVars, wmVars, retryVars, watchVars, blVars, rtVars,
                   closed, results>>

\* the stream ends inside the body of a message being written
WriterWriteCutOff ==
    /\ closed = "open"
    /\ Len(written) < MaxMessages
    /\ \E m \in StreamMessages :
       \E k \in 1..(Len(Encode(m)) - 1) :
        LET partial == SubSeq(Encode(m), 1, k)
        IN  /\ stream' = stream \o <<Block(EmptyLine, 2)>> \o partial
            /\ written' = Append(written, m)
            /\ framed' = Append(framed, Parse(partial, Bytes(partial) - 1))
    /\ closed' = "cut"
    /\ UNCHANGED <<engineVars, currentVersionFile, mmVars, verifyVars, wmVars, retryVars, watchVars, blVars, rtVars, results>>

\* an additional empty line before, between or after messages
ExtraEmptyLine ==
    /\ closed = "open"
    /\ EmptyLines(stream) - 3 * Len(written) < MaxExtraLines
    /\ stream' = Append(stream, Block(EmptyLine, 1))
    /\ UNCHANGED <<engineVars, currentVersionFile, mmVars, verifyVars, wmVars, retryVars, watchVars, blVars, rtVars,
                   closed, written, framed, results>>

\* the writing side closes the stream between messages
CloseStream ==
    /\ closed = "open"
    /\ closed' = "closed"
    /\ UNCHANGED <<engineVars, currentVersionFile, mmVars, verifyVars, wmVars, retryVars, watchVars, blVars, rtVars,
                   stream, written, framed, results>>

\* reader.Read() on the finished stream, until it has returned io.EOF
ReaderRead ==
    /\ closed # "open"
    /\ IF results = <<>> THEN TRUE ELSE results[Len(results)].err # "EOF"
    /\ results' = Append(results, Read(stream).result)
    /\ stream' = Read(stream).rest
    /\ UNCHANGED <<engineVars, currentVersionFile, mmVars, verifyVars, wmVars, retryVars, watchVars, blVars, rtVars,
                   closed, written, framed>>

NextStream ==
    \/ WriterWrite
    \/ WriterWriteCutOff
    \/ ExtraEmptyLine
    \/ CloseStream
    \/ ReaderRead

SpecStream == InitStream /\ [][NextStream]_vars

\* ------------------------------------------------------------------------
\* Bytes handed to Parse and to a Reader, and float64 values handed to Number
\* ------------------------------------------------------------------------
\* n times the byte c
Rep(c, n) == [i \in 1..n |-> c]

\* what follows the digits of a value line
Tails ==
    {<<>>, <<" ">>, <<"e", "1">>, <<"x">>, <<".", "1">>} \cup {<<c>> : c \in BadBytes}

\* value lines made of a space or none, a sign or none, digits, a "." and
\* digits or none, and a tail: 0, 1, the most and one more than the most
\* digits allowed on either side
NumberTexts ==
    {lead \o sign \o Rep("9", nb) \o frac \o tail :
        lead \in {<<>>, <<" ">>},
        sign \in {<<>>, <<"+">>, <<"-">>},
        nb \in {0, 1, MaxIntegerDigits, MaxIntegerDigits + 1},
        frac \in {<<>>} \cup {<<".">> \o Rep("1", na) :
                                 na \in {0, 1, MaxFractionDigits, MaxFractionDigits + 1}},
        tail \in Tails}

WordTexts ==
    {<<"missing">>, <<" ", "missing">>, <<"missing", " ">>, <<"missing", "x">>,
     <<"missing", "CR">>, <<"x">>, <<"1", " ", "1">>, <<"+", "-", "1">>, <<"0">>,
     <<"-", "0", ".", "0", "0", "0">>, <<"1", "TAB">>, <<"DEL", "1">>}

ValueTexts == (NumberTexts \ {<<>>}) \cup WordTexts

HeaderTexts ==
    {<<"pointvalue", " ", "a">>, <<"pointvalue", " ", " ", "a">>,
     <<" ", "pointvalue", " ", "a", " ">>, <<"pointvalue", "TAB", "a">>,
     <<"pointvalue", " ", "a", "CR">>, <<"pointvalue", " ", "a", "NUL">>,
     <<"pointvalue", " ", "a", "DEL">>, <<"pointvalue", " ", "x80", "a">>,
     <<"x", " ", "a">>, <<"pointvalue">>, <<"pointvalue", " ", "a", " ", "a">>,
     <<"pointvalue", " ", "a", ".", "a">>, <<"pointvalue", " ", ".", "a">>}

\* the last line of a time series that is 9 992 bytes long without it
LastLines ==
    {<<"missing">>, <<"missing", " ">>, <<"missing", "CR">>, <<"missing", " ", " ">>,
     <<"missing", "CR", "CR">>, <<"1", ".", "1", "1", "1", "CR">>, <<"9", ".", "1", "1", "1", "1">>,
     <<"+", "9", ".", "1", "1", "1", "1">>, <<"NUL", "9", ".", "1", "1", "1", "1">>}

WireBodies ==
    {Encode(m) : m \in Messages}
    \cup
    {<<Block(HeaderLine("pointvalue", <<"a">>), 1), Block(TextLine(t), 1)>> : t \in ValueTexts}
    \cup
    {<<Block(TextLine(h), 1), Block(NumberText(FALSE, 1, 0), 1)>> : h \in HeaderTexts}
    \cup
    {<<Block(HeaderLine("timeseries", <<"a">>), 1), Block(StampLine(0), 1),
       Block(NumberText(FALSE, 0, 0), BigRun), Block(MissingText, 1), Block(TextLine(t), 1)>> :
        t \in LastLines}

\* 99999999.9994, -99999999.9996, 100000000, -100000000, 1000000000,
\* 123.456, 0.5, -0.0006 and 999.9996 besides the values of Floats
Float64s ==
    Floats \cup
    {Float(FALSE, 99999999, 9994), Float(TRUE, 99999999, 9996), Float(FALSE, 100000000, 0),
     Float(TRUE, 100000000, 0), Float(FALSE, 1000000000, 0), Float(FALSE, 123, 4560),
     Float(FALSE, 0, 5000), Float(TRUE, 0, 6), Float(FALSE, 999, 9996)}

InitCodec ==
    /\ EngineIdle
    /\ MMIdle
    /\ watched = <<>>
    /\ passedOn = NoName
    /\ inputs = <<>>
    /\ stdinWritten = <<>>
    /\ BlIdle
    /\ WatcherIdle
    /\ RetryIdle
    /\ VerifyIdle
    /\ StreamIdle
    /\ rt = [done |-> FALSE]
    /\ \/ /\ wire \in {[done |-> FALSE, body |-> b] : b \in WireBodies}
          /\ num = [done |-> FALSE]
       \/ /\ wire = [done |-> FALSE]
          /\ num \in {[done |-> FALSE, f |-> f] : f \in Float64s \cup {Missing}}

\* Parse(data), and Read on a Reader over "\n\n" data "\n\n"
ParseWire ==
    /\ ~wire.done
    /\ wire # [done |-> FALSE]
    /\ wire' = [done |-> TRUE, body |-> wire.body, size |-> Bytes(wire.body) - 1,
                parsed |-> Parse(wire.body, Bytes(wire.body) - 1),
                read |-> Read(WriterLines(wire.body)).result]
    /\ UNCHANGED <<engineVars, currentVersionFile, mmVars, verifyVars, wmVars, retryVars, watchVars, blVars, streamVars,
                   rt, num>>

\* Missing() or Number(f); for an accepted value: its String, parseValue of
\* that, and the String of the parsed value
NumberValue ==
    /\ ~num.done
    /\ num # [done |-> FALSE]
    /\ num' = IF num.f.missing \/ Number(num.f)
                THEN [done |-> TRUE, f |-> num.f, accepted |-> TRUE,
                      encoded |-> ValueString(num.f),
                      parsed |-> parseValue(ValueString(num.f)),
                      reencoded |-> ValueString(parseValue(ValueString(num.f)).value)]
                ELSE [done |-> TRUE, f |-> num.f, accepted |-> FALSE,
                      encoded |-> ValueString(num.f),
                      parsed |-> [ok |-> FALSE, value |-> Missing],
                      reencoded |-> MissingText]
    /\ UNCHANGED <<engineVars, currentVersionFile, mmVars, verifyVars, wmVars, retryVars, watchVars, blVars, streamVars,
                   rt, wire>>

NextCodec ==
    \/ ParseWire
    \/ NumberValue

SpecCodec == InitCodec /\ [][NextCodec]_vars

\* ------------------------------------------------------------------------
\* verifyAndPullImage on the signature containers a registry can serve
\* ------------------------------------------------------------------------
\* signature containers for app 0.0.5: without a digest or a public key
\* label, declaring and signed with a 16-byte key or a key that is not
\* base64, and carrying the signature made for 0.0.6
NoDigestLabels(m, v) == [GoodLabels(m, v) EXCEPT !.digest = ""]

NoPubkeyLabels(m, v) == [GoodLabels(m, v) EXCEPT !.pubkey = ""]

KeyLabels(m, v, key) ==
    [digest |-> DigestOf(v), pubkey |-> key,
     signature |-> [key |-> key, msg |-> SignedMessage(ImageOf(m), Tag(v), DigestOf(v))]]

OtherTagLabels(m, v) ==
    [digest |-> DigestOf(VC), pubkey |-> "K1",
     signature |-> [key |-> "K1", msg |-> SignedMessage(ImageOf(m), Tag(VC), DigestOf(VC))]]

OtherImageLabels(m, v) ==
    [digest |-> DigestOf(v), pubkey |-> "K1",
     signature |-> [key |-> "K1",
                    msg |-> SignedMessage(ImageOf("orchestrator"), Tag(v), DigestOf(v))]]

ServedLabels ==
    {GoodLabels("app", VB), ForeignKeyLabels("app", VB), SwappedDigestLabels("app", VB),
     UnsignedLabels("app", VB), NoDigestLabels("app", VB), NoPubkeyLabels("app", VB),
     KeyLabels("app", VB, "Kshort"), KeyLabels("app", VB, "Knot64"),
     OtherTagLabels("app", VB), OtherImageLabels("app", VB)}

\* the public_key file of the module
ModuleKeys == {"K1", "Kshort", "Knot64"}

InitVerify ==
    /\ EngineIdle
    /\ MMIdle
    /\ watched = <<>>
    /\ passedOn = NoName
    /\ inputs = <<>>
    /\ stdinWritten = <<>>
    /\ BlIdle
    /\ WatcherIdle
    /\ RetryIdle
    /\ CodecIdle
    /\ vp \in {[done |-> FALSE, labels |-> l, key |-> k, outcome |-> o] :
                  l \in ServedLabels, k \in ModuleKeys, o \in Outcomes \cup {"inspect"}}

\* verifyAndPullImage(image of app, "0.0.5-<arch>", the module's public key)
VerifyAndPull ==
    /\ ~vp.done
    /\ vp # NoVerify
    /\ LET r == verifyAndPullSteps(ImageOf("app"), Tag(VB), vp.labels, vp.key, vp.outcome)
       IN  vp' = [done |-> TRUE, labels |-> vp.labels, key |-> vp.key, outcome |-> vp.outcome,
                  err |-> r.err, ran |-> r.ran]
    /\ UNCHANGED <<engineVars, currentVersionFile, mmVars, watchVars, blVars, rtVars, streamVars,
                   wmVars, retryVars>>

NextVerify == VerifyAndPull

SpecVerify == InitVerify /\ [][NextVerify]_vars

\* ------------------------------------------------------------------------
\* watchModule of one instance: the stdout and stderr goroutines, cmd.Wait
\* and the deferred removal of the record (module_manager.go, lines 301-366)
\* ------------------------------------------------------------------------
MaxOutputItems == 2

\* a line that bufio.Scanner cannot hold in its buffer: Scan returns false
\* and Err returns bufio.ErrTooLong from then on
LongLine == [kind |-> "long"]

PointValueMissing(name) ==
    [name |-> name, type |-> "pointvalue", start |-> NoStart,
     values |-> <<[v |-> Missing, n |-> 1]>>]

\* a time series of MaxMessageBytes + 8 bytes, followed by `tail` without an
\* empty line in between: the limit is passed on the last line before `tail`
OversizedBody(tail) ==
    <<Block(HeaderLine("timeseries", <<"a">>), 1), Block(StampLine(0), 1),
      Block(NumberText(FALSE, 0, 0), BigRun), Block(MissingText, 3)>> \o tail

\* what a child writes to its stdout between two empty lines: two well-formed
\* messages, a message of an unknown type, a header with a carriage return,
\* an oversized time series, an oversized time series whose last two lines
\* read "pointvalue e" and "missing", and an over-long line
OutputItems ==
    {Encode(PointValueMissing(<<"a">>)),
     Encode(PointValueMissing(<<"x">>)),
     <<Block(TextLine(<<"x", " ", "a">>), 1), Block(NumberText(FALSE, 1, 0), 1)>>,
     <<Block(TextLine(<<"pointvalue", " ", "a", "CR">>), 1), Block(MissingText, 1)>>,
     OversizedBody(<<>>),
     OversizedBody(Encode(PointValueMissing(<<"e">>))),
     <<Block(LongLine, 1)>>}

RECURSIVE StdoutOf(_)
StdoutOf(items) ==
    IF items = <<>> THEN <<>> ELSE WriterLines(Head(items)) \o StdoutOf(Tail(items))

ChildOutputs == UNION {[1..k -> OutputItems] : k \in 0..MaxOutputItems}

\* the lines Reader.Read scans for the next message hold an over-long line
MeetsLongLine(s) ==
    LET t == SkipEmpty(s)
    IN  \E i \in DOMAIN t :
            /\ t[i].line = LongLine
            /\ \A j \in 1..(i - 1) : t[j].line # EmptyLine

\* Reader.Read over the scanner of the child's stdout: once the scanner has
\* failed, scanner.Err() is returned by every call (lines 441-443, 464-466)
ScannerRead(s, failed) ==
    IF failed \/ MeetsLongLine(s)
      THEN [result |-> ParseError("scanner.Err"), rest |-> s, failed |-> TRUE]
      ELSE [result |-> Read(s).result, rest |-> Read(s).rest, failed |-> FALSE]

\* Reader.Read returns without waiting for more output: the scanner has
\* failed or fails, or the message is ended by an empty line
ReadReturns(s, failed) ==
    \/ failed
    \/ MeetsLongLine(s)
    \/ \E i \in DOMAIN SkipEmpty(s) : SkipEmpty(s)[i].line = EmptyLine

\* the calls of reader.Read() on the stream s, up to the one that returns
\* io.EOF or the scanner's error: what each returns, and whether it returns
\* before the stream has ended
RECURSIVE ReadsOf(_)
ReadsOf(s) ==
    LET r == ScannerRead(s, FALSE)
        call == [result |-> r.result, returns |-> ReadReturns(s, FALSE)]
    IN  IF r.failed \/ r.result.err = "EOF" THEN <<call>>
        ELSE <<call>> \o ReadsOf(r.rest)

InitWatcher ==
    /\ EngineIdle
    /\ imageFile = [n \in ModuleDirs |-> File(ImageOf(n))]
    /\ disabledFile = {}
    /\ restartFile = {}
    /\ modules = [n \in ModuleDirs |->
                    IF n = "app" THEN ModuleInstance(1, n, ImageOf(n), VA) ELSE NoInstance]
    /\ instances = <<[name |-> "app", status |-> "running", stdinClosed |-> FALSE]>>
    /\ containers = {containerName("app")}
    /\ mmTask = "run"
    /\ lastSweep = NoSweep
    /\ lastTick = NoTick
    /\ ticks = 0
    /\ edits = 0
    /\ watched = <<>>
    /\ passedOn = NoName
    /\ inputs = <<>>
    /\ stdinWritten = <<>>
    /\ BlIdle
    /\ VerifyIdle
    /\ CodecIdle
    /\ RetryIdle
    /\ wm \in {[main |-> "wait", stdout |-> "reading", stderr |-> "reading",
                output |-> items, calls |-> ReadsOf(StdoutOf(items)), next |-> 1,
                failed |-> FALSE, reads |-> <<>>, received |-> <<>>] :
                  items \in ChildOutputs}

\* the stdout goroutine, lines 316-337: one reader.Read() and what the loop
\* does with its result; after the scanner has failed every call returns its
\* error and the loop goes on
ReadStdout ==
    /\ wm.main # "none"
    /\ wm.stdout = "reading"
    /\ IF wm.failed
         THEN wm' = wm
         ELSE /\ instances[1].status = "exited" \/ wm.calls[wm.next].returns
              /\ wm' = [wm EXCEPT
                    !.next = IF wm.calls[wm.next].result.err \in {"EOF", "scanner.Err"}
                               THEN @ ELSE @ + 1,
                    !.failed = wm.calls[wm.next].result.err = "scanner.Err",
                    !.stdout = IF wm.calls[wm.next].result.err = "EOF" THEN "done"
                               ELSE "reading",
                    !.reads = Append(@, wm.calls[wm.next].result),
                    !.received =
                        IF /\ wm.calls[wm.next].result.err = ""
                           /\ ValidateNamePart(wm.calls[wm.next].result.msg.name)
                          THEN Append(@, [wm.calls[wm.next].result.msg EXCEPT
                                            !.name = Qualify(<<instances[1].name>>, @)])
                          ELSE @]
    /\ UNCHANGED <<engineVars, currentVersionFile, mmVars, watchVars, blVars, rtVars, streamVars,
                   verifyVars, retryVars>>

\* cmd.Wait has closed the read side of the stdout pipe (line 355) while the
\* stdout goroutine was still reading: its read fails with an error that is
\* not io.EOF
ReadStdoutClosed ==
    /\ wm.main = "join"
    /\ wm.stdout = "reading"
    /\ ~wm.failed
    /\ wm' = [wm EXCEPT !.failed = TRUE]
    /\ UNCHANGED <<engineVars, currentVersionFile, mmVars, watchVars, blVars, rtVars, streamVars,
                   verifyVars, retryVars>>

\* the stderr goroutine, lines 341-351: scanner.Scan returns false at the
\* end of the stream
ReadStderr ==
    /\ wm.main # "none"
    /\ wm.stderr = "reading"
    /\ instances[1].status = "exited"
    /\ wm' = [wm EXCEPT !.stderr = "done"]
    /\ UNCHANGED <<engineVars, currentVersionFile, mmVars, watchVars, blVars, rtVars, streamVars,
                   verifyVars, retryVars>>

\* instance.cmd.Wait() returns, line 355
CmdWait ==
    /\ wm.main = "wait"
    /\ instances[1].status = "exited"
    /\ wm' = [wm EXCEPT !.main = "join"]
    /\ UNCHANGED <<engineVars, currentVersionFile, mmVars, watchVars, blVars, rtVars, streamVars,
                   verifyVars, retryVars>>

\* <-stdoutDone, <-stderrDone (lines 358-359), the return and the deferred
\* removal of the record
WatcherReturns ==
    /\ wm.main = "join"
    /\ wm.stdout = "done"
    /\ wm.stderr = "done"
    /\ watchModule(1)

NextWatcher ==
    \/ ChildExits(1)
    \/ ReadStdout
    \/ ReadStdoutClosed
    \/ ReadStderr
    \/ CmdWait
    \/ WatcherReturns

\* every goroutine of the watcher is scheduled again and again
SpecWatcher ==
    /\ InitWatcher
    /\ [][NextWatcher]_vars
    /\ WF_vars(ReadStdout)
    /\ WF_vars(ReadStderr)
    /\ WF_vars(CmdWait)
    /\ WF_vars(WatcherReturns)

\* ------------------------------------------------------------------------
\* Properties of the update engine and the self-update protocol
\* ------------------------------------------------------------------------
OrchestratorBlacklist == GetBlacklistedVersions(blacklist["orchestrator"])

\* C1 (as claimed): updateModule writes bin/shem-orchestrator-<v> only for a
\* version v that passed verifySignature earlier in the same process,
\* whatever local image storage holds.
C1_SignedOnlyUpdates ==
    lastUpdate.extracted => lastUpdate.verified

\* C3 (as claimed): whenever updateModule adopts a version (extracts the
\* orchestrator binary and requests restart), that version is not on the
\* module's on-disk blacklist at that moment.
C3_AdoptedNotBlacklisted ==
    lastUpdate.extracted => ~lastUpdate.onBlacklist

C2_Rollback ==
    /\ (lastExit.child # NoVersion /\ lastExit.kind = "exit"
          /\ lastExit.childCode # 0 /\ ~lastExit.promoted)
        => /\ lastExit.parentCode = lastExit.childCode
           /\ lastExit.symlinkAfter = lastExit.symlinkBefore
    /\ failedRuns \subseteq OrchestratorBlacklist
    /\ ~(mode = "verify" /\ Version \in failedRuns)

C2_Witness ==
    /\ starts >= 2 /\ mode = "normal" /\ pc = "run"
    /\ lastExit.kind = "exit" /\ lastExit.childCode = 2 /\ ~lastExit.promoted
    /\ lastExit.child \in failedRuns
    /\ lastPhase0.own = VA /\ lastPhase0.readOk /\ ~lastPhase0.spawned
    /\ lastExit.child \in lastPhase0.bins

\* C4: in a normal start the candidate is on the on-disk blacklist when its
\* binary is spawned with --verification-run, and when writing the blacklist
\* fails nothing is spawned and the current version runs normally.
C4_BlacklistBeforeSpawn ==
    [][(pc = "phase0" /\ mode = "normal")
        => /\ (mode' = "verify"
                 => Version' \in GetBlacklistedVersions(blacklist'["orchestrator"]))
           /\ (lastPhase0'.addFailed
                 => mode' = "normal" /\ pc' = "run" /\ Version' = Version /\ runs' = runs)]_vars

C4_Witness ==
    /\ mode = "verify" /\ pc = "phase0"
    /\ lastPhase0.spawned
    /\ Version \in OrchestratorBlacklist
    /\ Version \notin lastPhase0.bl

\* C5 (as claimed): the number of verification runs is bounded by the
\* number of candidate binaries newer than the blessed version.
C5_BoundedVerificationRuns ==
    runs[VB] + runs[VC]
      <= Cardinality({v \in binFiles : parseVersion(v).ok /\ compareVersions(v, VA) > 0})

\* C6 (as claimed): when the verification check has passed and initiated
\* shutdown, the process's version is not on the orchestrator blacklist and
\* the symlink points at its binary, whatever the file operations returned.
C6_PromotedAtShutdown ==
    vTask = "checked" => (Version \notin OrchestratorBlacklist /\ symlink = Version)

\* the binaries Phase 0 may select: parseable, not blacklisted, newer than
\* the running version
EligibleBinaries(p) ==
    {v \in p.bins : parseVersion(v).ok /\ v \notin p.bl /\ compareVersions(v, p.own) > 0}

\* C7 (as claimed): a normal start runs the verification of the highest
\* eligible binary if and only if one exists; a verification run never scans.
C7_RunsIffEligible ==
    lastPhase0.own # NoVersion
      => /\ ~lastPhase0.byVerificationRun
         /\ lastPhase0.spawned <=> EligibleBinaries(lastPhase0) # {}
         /\ lastPhase0.spawned
              => /\ lastPhase0.selected \in EligibleBinaries(lastPhase0)
                 /\ \A w \in EligibleBinaries(lastPhase0) :
                       compareVersions(w, lastPhase0.selected) <= 0

\* C7 (amended): a normal start selects the highest eligible binary, and
\* runs its verification if and only if one exists, the blacklist could be
\* read, the version could be added to the on-disk blacklist and the binary
\* could be started; a verification run never scans.
C7_Selection ==
    lastPhase0.own # NoVersion
      => /\ ~lastPhase0.byVerificationRun
         /\ lastPhase0.readOk
              => (lastPhase0.selected # NoVersion <=> EligibleBinaries(lastPhase0) # {})
         /\ lastPhase0.selected # NoVersion
              => /\ lastPhase0.selected \in EligibleBinaries(lastPhase0)
                 /\ \A w \in EligibleBinaries(lastPhase0) :
                       compareVersions(w, lastPhase0.selected) <= 0
         /\ lastPhase0.spawned
              <=> /\ lastPhase0.selected # NoVersion
                  /\ ~lastPhase0.addFailed
                  /\ ~lastPhase0.startFailed

C7_Witness ==
    /\ mode = "verify" /\ pc = "run"
    /\ lastPhase0.spawned
    /\ lastPhase0.selected = Version
    /\ Cardinality(EligibleBinaries(lastPhase0)) >= 2
    /\ VBad \in lastPhase0.bins

\* ------------------------------------------------------------------------
\* Properties of the module supervisor
\* ------------------------------------------------------------------------
RecordContainers(names) == {containerName(n) : n \in names}

\* C9 (as claimed): after every reconcile tick each record in the instance
\* table has its container shem-module-<name>, and no other container
\* matching shem-module-* exists.
C9_SandboxUniqueness ==
    ticks > 0 => lastTick.containers = RecordContainers(lastTick.records)

\* C9 (amended): after every reconcile tick the table holds at most one
\* record per module name, each naming the container shem-module-<name>,
\* and every container matching shem-module-* is named by a record of the
\* table, or belonged to an instance that tick asked to stop, or is one the
\* tick's orphan sweep could not list or remove.
C9_OrphansAccountedFor ==
    /\ \A n \in ModuleDirs :
          modules[n] # NoInstance
            => /\ modules[n].name = n
               /\ modules[n].containerName = containerName(n)
               /\ modules[n].id \in DOMAIN instances
               /\ instances[modules[n].id].name = n
    /\ ticks > 0
        => \A c \in lastTick.containers :
              \/ c \in RecordContainers(lastTick.records)
              \/ c \in RecordContainers(lastTick.stopped)
              \/ ~lastTick.sweep.listOk
              \/ c \in lastTick.sweep.rmFailed

C9_Witness ==
    /\ ticks > 1
    /\ lastTick.sweep.listOk
    /\ StaleContainer \in lastTick.sweep.before
    /\ StaleContainer \notin lastTick.containers
    /\ lastTick.stopped = {"app"}
    /\ containerName("app") \in lastTick.containers
    /\ lastTick.records = {}

\* C10 (as claimed): the sweep at the start of a reconcile tick removes
\* every container whose name starts with shem-module- and is not the
\* container name of a record in the table, and removes no container of a
\* record.
C10_OrphanSweep ==
    lastSweep.by = "reconcile"
      => /\ \A c \in lastSweep.before \ lastSweep.expected : c \notin lastSweep.after
         /\ \A c \in lastSweep.before \cap lastSweep.expected : c \in lastSweep.after

\* C10 (amended): when the sweep at the start of a reconcile tick can list
\* the containers, every container shem-module-* that no record names is
\* removed unless its removal fails; when the listing fails nothing is
\* removed; the sweep never removes a container a record names.
C10_OrphanSweepUnlessFailure ==
    lastSweep.by = "reconcile"
      => /\ lastSweep.listOk
              => \A c \in lastSweep.before \ lastSweep.expected :
                    c \in lastSweep.rmFailed \/ c \notin lastSweep.after
         /\ ~lastSweep.listOk => lastSweep.after = lastSweep.before
         /\ \A c \in lastSweep.before \cap lastSweep.expected : c \in lastSweep.after
         /\ lastSweep.after \subseteq lastSweep.before

C10_Witness ==
    /\ lastSweep.by = "reconcile" /\ lastSweep.listOk
    /\ lastSweep.expected = {containerName("app")}
    /\ lastSweep.before = {containerName("app"), StaleContainer}
    /\ lastSweep.after = {containerName("app")}

\* C11: a module whose disabled file exists when a reconcile tick examines
\* it is not spawned by that tick, whatever restart, image and
\* current_version hold, and a running instance of it is gracefully stopped
\* in that tick: its stdin is closed and its record removed.
C11_DisabledForbidsRunning ==
    \A n \in lastTick.disabled :
        /\ n \notin lastTick.spawned
        /\ modules[n] = NoInstance
        /\ lastTick.table[n] # NoInstance
             => /\ n \in lastTick.stopped
                /\ n \notin lastTick.records
                /\ instances[lastTick.table[n].id].stdinClosed

C11_Witness ==
    /\ "app" \in lastTick.disabled
    /\ lastTick.table["app"] # NoInstance
    /\ lastTick.config["app"].version # NoVersion
    /\ lastTick.config["app"].image # ""
    /\ "app" \in lastTick.stopped
    /\ instances[lastTick.table["app"].id].stdinClosed

\* a step of the model that is one call of reconcile
TickStep == ticks' = ticks + 1

\* the tick found the module listed, enabled and configured, could read its
\* configuration and could start a child
CanSpawn(t, n) ==
    /\ n \in t.examined
    /\ n \notin t.disabled
    /\ t.config[n].image # ""
    /\ t.config[n].version # NoVersion
    /\ t.io[n] = "ok"

Matches(instance, t, n) ==
    /\ instance # NoInstance
    /\ instance.image = t.config[n].image
    /\ instance.version = t.config[n].version

\* C13: for a module that a tick lists, finds enabled without a restart file
\* and with image and current_version set, and whose configuration reads and
\* spawn succeed: a running instance whose record differs from the on-disk
\* values is gracefully stopped by that tick, a module without a record is
\* spawned with the on-disk values, a matching record is kept; hence two
\* such ticks in a row over the same on-disk values leave a record whose
\* (image, version) equals the on-disk values.
C13_Convergence ==
    [][TickStep =>
        \A n \in Supervised :
            (CanSpawn(lastTick', n) /\ n \notin lastTick'.restart) =>
                /\ (modules[n] # NoInstance /\ ~Matches(modules[n], lastTick', n))
                     => /\ n \in lastTick'.stopped
                        /\ instances'[modules[n].id].stdinClosed
                        /\ modules'[n] = NoInstance
                /\ modules[n] = NoInstance
                     => /\ n \in lastTick'.spawned
                        /\ Matches(modules'[n], lastTick', n)
                /\ Matches(modules[n], lastTick', n)
                     => /\ modules'[n] = modules[n]
                        /\ n \notin lastTick'.stopped
                /\ (/\ lastTick # NoTick
                    /\ CanSpawn(lastTick, n) /\ n \notin lastTick.restart
                    /\ lastTick.config[n] = lastTick'.config[n])
                     => Matches(modules'[n], lastTick', n)]_vars

C13_Witness ==
    /\ ticks = 3
    /\ Len(instances) = 2
    /\ instances[1].stdinClosed
    /\ lastTick.config["app"].version = VB
    /\ modules["app"] # NoInstance
    /\ modules["app"].id = 2
    /\ modules["app"].version = VB
    /\ currentVersionFile["app"] = VB
    /\ "app" \in lastTick.spawned
    /\ "app" \notin lastTick.followsRestart

\* the step in which ModuleManager.Run observes cancellation
Teardown == mmTask = "run" /\ mmTask' = "stopped"

\* every child in the table when cancellation is observed has its stdin
\* closed and the table is empty afterwards
TeardownStopsTracked ==
    /\ \A n \in ModuleDirs :
          modules[n] # NoInstance => instances'[modules[n].id].stdinClosed
    /\ \A n \in ModuleDirs : modules'[n] = NoInstance
    /\ lastSweep'.by = "stopAllModules"
    /\ lastSweep'.expected = {}

\* nothing is spawned and no tick runs once cancellation has been observed
NoSpawnAfterCancellation ==
    mmTask = "stopped" =>
        /\ mmTask' = "stopped"
        /\ Len(instances') = Len(instances)
        /\ modules' = modules
        /\ ticks' = ticks

\* C14 (as claimed): on cancellation every tracked child has its input
\* stream closed, the instance table is emptied, the orphan sweep has
\* force-removed every remaining shem-module-* container, and no module is
\* spawned afterwards.
C14_GlobalTeardown ==
    [][/\ Teardown => TeardownStopsTracked /\ lastSweep'.after = {} /\ containers' = {}
       /\ NoSpawnAfterCancellation]_vars

\* C14 (amended): as above, but the sweep removes every remaining
\* shem-module-* container only if the container listing succeeds, and then
\* every one except those whose removal command fails.
C14_GlobalTeardownUnlessFailure ==
    [][/\ Teardown =>
            /\ TeardownStopsTracked
            /\ containers' = lastSweep'.after
            /\ lastSweep'.before = containers
            /\ lastSweep'.listOk => lastSweep'.after = lastSweep'.rmFailed
            /\ (lastSweep'.listOk /\ lastSweep'.rmFailed = {}) => containers' = {}
            /\ ~lastSweep'.listOk => containers' = containers
       /\ NoSpawnAfterCancellation]_vars

C14_Witness ==
    /\ mmTask = "stopped"
    /\ lastSweep.by = "stopAllModules"
    /\ lastSweep.listOk
    /\ lastSweep.before = {containerName("app"), StaleContainer}
    /\ lastSweep.after = {}
    /\ containers = {}
    /\ Len(instances) = 1
    /\ "app" \in lastTick.records
    /\ "app" \notin lastTick.stopped
    /\ instances[1].stdinClosed
    /\ instances[1].status = "exited"
    /\ modules["app"] = NoInstance

\* C15: for every message the watcher passes on, the name is the child's
\* module name, a dot and the original name, the original name is
\* unqualified, and the module part and the variable part of the resulting
\* name are the child's name and the original name and both match
\* [A-Za-z0-9_]{1,100}.
C15_NameValidity ==
    passedOn # NoName =>
        /\ passedOn.name = Qualify(passedOn.child, passedOn.original)
        /\ passedOn.child = watched
        /\ IndexDot(passedOn.original) = 0
        /\ SplitName(passedOn.name) = <<passedOn.child, passedOn.original>>
        /\ ValidateNamePart(SplitName(passedOn.name)[1])
        /\ ValidateNamePart(SplitName(passedOn.name)[2])

\* C16: when updateModule has run for a non-orchestrator module whose newest
\* local version is greater than its current version, the module's
\* current_version file holds that newest version.
C16_ModuleUpdatePromotion ==
    (/\ lastUpdate.module \in Supervised
     /\ lastUpdate.newest # NoVersion
     /\ lastUpdate.newer)
        => currentVersionFile[lastUpdate.module] = lastUpdate.newest

\* C17: a tick that lists a non-disabled module with an image, with images
\* of it in local storage and without a current_version file, and whose
\* reads succeed, selects a version and leaves it in the module's
\* current_version file, and the module's record, once spawned, has that
\* version.
C17_CurrentVersionWrittenWhenAbsent ==
    [][TickStep =>
        \A n \in Supervised :
            (/\ n \in lastTick'.examined
             /\ n \notin lastTick'.disabled
             /\ lastTick'.config[n].image # ""
             /\ lastTick'.config[n].version = NoVersion
             /\ lastTick'.io[n] = "ok"
             /\ findLocalVersions(n) # {})
                => /\ currentVersionFile'[n] \in findLocalVersions(n)
                   /\ modules'[n] # NoInstance
                        => modules'[n].version = currentVersionFile'[n]]_vars

\* the versions on the lines of a file content, in file order
RECURSIVE FileLines(_)
FileLines(content) ==
    IF content = <<>> THEN <<>>
    ELSE IF Head(content) = NL THEN FileLines(Tail(content))
    ELSE <<Head(content)>> \o FileLines(Tail(content))

\* (major, minor, patch) of v is not above that of w
TripleLE(v, w) ==
    LET a == parseVersion(v)
        b == parseVersion(w)
    IN  \/ a.major < b.major
        \/ a.major = b.major /\ a.minor < b.minor
        \/ a.major = b.major /\ a.minor = b.minor /\ a.patch <= b.patch

\* C18: after any sequence of AddToBlacklist and RemoveFromBlacklist calls
\* on one module, starting from an empty blacklist, the file holds exactly
\* the net members, one version per line without duplicates, sorted
\* ascending by (major, minor, patch), and ends with a newline iff the set is
\* non-empty; adding a member again leaves the same members (and the same
\* file when no two members compare equal), and removing a non-member
\* returns an error and leaves the file unchanged.
C18_BlacklistFile ==
    LET content == blacklist["app"]
        lines == FileLines(content)
    IN  /\ {lines[i] : i \in DOMAIN lines} = netMembers
        /\ Len(lines) = Cardinality(netMembers)
        /\ Len(content) = 2 * Len(lines)
        /\ \A i \in DOMAIN content : (content[i] = NL) <=> (i % 2 = 0)
        /\ (content # <<>> /\ content[Len(content)] = NL) <=> netMembers # {}
        /\ \A i, j \in DOMAIN lines : i < j => TripleLE(lines[i], lines[j])
        /\ (/\ lastBl.op = "add" /\ ~lastBl.err
            /\ lastBl.version \in GetBlacklistedVersions(lastBl.before))
             => /\ GetBlacklistedVersions(lastBl.after) = GetBlacklistedVersions(lastBl.before)
                /\ (\A v, w \in netMembers : v # w => ~(TripleLE(v, w) /\ TripleLE(w, v)))
                     => lastBl.after = lastBl.before
        /\ (/\ lastBl.op = "remove"
            /\ lastBl.version \notin GetBlacklistedVersions(lastBl.before))
             => lastBl.err /\ lastBl.after = lastBl.before

C18_Witness ==
    /\ blOps = 3
    /\ lastBl.op = "add" /\ ~lastBl.err
    /\ lastBl.version = VB
    /\ lastBl.before = <<VA, NL, VB, NL>>
    /\ blacklist["app"] = <<VA, NL, VB, NL>>
    /\ netMembers = {VA, VB}

\* == on two values
ValueEq(p, v) ==
    /\ p.missing = v.missing
    /\ p.ip = v.ip /\ p.fp = v.fp
    /\ p.neg = v.neg \/ (p.ip = 0 /\ p.fp = 0)

\* p is v rounded to the nearest thousandth
ValueRounded(p, v) ==
    /\ p.missing = v.missing
    /\ p.neg = v.neg
    /\ p.fp % 10 = 0
    /\ \/ p.ip = v.ip /\ p.fp - v.fp \in -5..5
       \/ p.ip = v.ip + 1 /\ p.fp = 0 /\ v.fp >= 9995

\* C19 (as claimed): for every syntactically valid message m,
\* Parse(Encode(m)) succeeds and equals m in name, type and values, and
\* Encode(Parse(Encode(m))) equals Encode(m).
C19_RoundTrip ==
    (rt.done /\ ValidMessage(rt.m)) =>
        /\ rt.parsed.err = ""
        /\ rt.parsed.msg.name = rt.m.name
        /\ rt.parsed.msg.type = rt.m.type
        /\ Len(rt.parsed.msg.values) = Len(rt.m.values)
        /\ \A i \in DOMAIN rt.m.values :
              /\ rt.parsed.msg.values[i].n = rt.m.values[i].n
              /\ ValueEq(rt.parsed.msg.values[i].v, rt.m.values[i].v)
        /\ rt.reencoded = rt.encoded

\* C19 (amended): as above, with every parsed value equal to m's value
\* rounded to three fraction digits, hence equal to it when it has no more
\* than three.
C19_RoundTripCanonical ==
    (rt.done /\ ValidMessage(rt.m)) =>
        /\ rt.parsed.err = ""
        /\ rt.parsed.msg.name = rt.m.name
        /\ rt.parsed.msg.type = rt.m.type
        /\ Len(rt.parsed.msg.values) = Len(rt.m.values)
        /\ \A i \in DOMAIN rt.m.values :
              /\ rt.parsed.msg.values[i].n = rt.m.values[i].n
              /\ ValueRounded(rt.parsed.msg.values[i].v, rt.m.values[i].v)
              /\ rt.m.values[i].v.fp % 10 = 0
                   => ValueEq(rt.parsed.msg.values[i].v, rt.m.values[i].v)
        /\ rt.reencoded = rt.encoded

C19_Witness ==
    /\ rt.done
    /\ ValidMessage(rt.m)
    /\ rt.m.type = "timeseries"
    /\ rt.m.name = <<"a", ".", "_">>
    /\ Len(rt.m.values) = 3
    /\ rt.m.values[2].v = Missing
    /\ rt.m.values[3].v = Float(TRUE, 0, 3)
    /\ rt.parsed.err = ""
    /\ rt.parsed.msg.values[3].v = Float(TRUE, 0, 0)
    /\ rt.reencoded = rt.encoded

\* C20: the successive Read calls on a stream of written messages return
\* those messages in order, one per call (for a message cut off by the end
\* of the stream: what its partial body parses to, as the final result), and
\* the call after the last message returns io.EOF, whatever additional empty
\* lines the stream holds.
C20_StreamFraming ==
    \A i \in DOMAIN results :
        /\ i <= Len(framed) + 1
        /\ i = Len(framed) + 1 => results[i].err = "EOF"
        /\ i <= Len(framed) =>
              /\ results[i] = framed[i]
              /\ (closed = "closed" \/ i < Len(framed)) =>
                    /\ results[i].err = ""
                    /\ results[i].msg.name = written[i].name
                    /\ results[i].msg.type = written[i].type
                    /\ Len(results[i].msg.values) = Len(written[i].values)

\* the same for streams whose messages all stay below the size limit
C20_BelowLimit ==
    (\A i \in DOMAIN written : EncodeLen(written[i]) < MaxMessageBytes) => C20_StreamFraming

\* ------------------------------------------------------------------------
\* Properties of Parse, Reader.Read and Number on bytes and values
\* ------------------------------------------------------------------------
\* Parse accepted the bytes
ParseAccepts == wire.done /\ wire.parsed.err = ""

\* Reader.Read returned a message for the bytes
ReadAccepts == wire.done /\ wire.read.err = ""

\* C21: a body of exactly 10 000 bytes is not too large for Parse and not
\* too large for Reader.Read, which returns for it what Parse returns, and
\* a body of 10 001 bytes is rejected with ErrMessageTooLarge by both.
C21_SizeBoundary ==
    wire.done =>
        /\ wire.size = MaxMessageBytes =>
              /\ wire.parsed.err # "ErrMessageTooLarge"
              /\ wire.read = wire.parsed
        /\ wire.size = MaxMessageBytes + 1 =>
              /\ wire.parsed.err = "ErrMessageTooLarge"
              /\ wire.read.err = "ErrMessageTooLarge"

\* the part of C21 the code satisfies: Parse at the boundary, Reader.Read
\* one byte below it and above it
C21_ParseBoundary ==
    wire.done =>
        /\ wire.size <= MaxMessageBytes => wire.parsed.err # "ErrMessageTooLarge"
        /\ wire.size < MaxMessageBytes => wire.read = wire.parsed
        /\ wire.size > MaxMessageBytes =>
              /\ wire.parsed.err = "ErrMessageTooLarge"
              /\ wire.read.err = "ErrMessageTooLarge"

\* the bytes hold a byte outside [0x20, 0x7E] and newline
BadByteIn(body) ==
    \E i \in DOMAIN body :
        /\ body[i].line.kind = "text"
        /\ \E j \in DOMAIN body[i].line.chars : body[i].line.chars[j] \in BadBytes

NumberFormat(chars) ==
    \E sign \in {<<>>, <<"+">>, <<"-">>} :
    \E a \in 0..8 :
    \E dot \in {<<>>, <<".">>} :
    \E b \in 0..3 :
        /\ a + b >= 1
        /\ dot = <<>> => b = 0
        /\ Len(chars) = Len(sign) + a + Len(dot) + b
        /\ SubSeq(chars, 1, Len(sign)) = sign
        /\ \A i \in (Len(sign) + 1)..(Len(sign) + a) : chars[i] \in {"0", "1", "9"}
        /\ SubSeq(chars, Len(sign) + a + 1, Len(sign) + a + Len(dot)) = dot
        /\ \A i \in (Len(sign) + a + Len(dot) + 1)..Len(chars) : chars[i] \in {"0", "1", "9"}

ValueFormat(chars) == chars = <<"missing">> \/ NumberFormat(chars)

\* the bytes are the header "pointvalue a" and one value line
ValueLineProbe ==
    /\ wire.done
    /\ Len(wire.body) = 2
    /\ wire.body[1].line = HeaderLine("pointvalue", <<"a">>)
    /\ wire.body[2].line.kind = "text"
    /\ wire.body[2].n = 1

\* C23: Parse accepts a value line if and only if the line as it is on the
\* wire is "missing" or a number in the numeric format.
C23_NumericFormat ==
    ValueLineProbe => (ParseAccepts <=> ValueFormat(wire.body[2].line.chars))

\* what the code does: the same with any number of spaces before and after
\* the value
C23_NumericFormatSpaces ==
    ValueLineProbe =>
        (ParseAccepts <=>
            \E l \in 0..1 : \E r \in 0..1 :
                LET chars == wire.body[2].line.chars
                IN  /\ Len(chars) >= l + r
                    /\ SubSeq(chars, 1, l) = Rep(" ", l)
                    /\ SubSeq(chars, Len(chars) - r + 1, Len(chars)) = Rep(" ", r)
                    /\ ValueFormat(SubSeq(chars, l + 1, Len(chars) - r)))

\* the value rounded to three fraction digits has more than 8 integer digits
RoundsBeyondRange(f) ==
    ~f.missing /\ (f.ip >= 100000000 \/ (f.ip = 99999999 /\ f.fp >= 9995))

\* C24: the encoded form of an accepted value is "missing" or a number with
\* three fraction digits and at most 8 integer digits, parsing and encoding
\* it again gives the same text, and Number rejects every value that rounds
\* to 10^8 or more in magnitude.
C24_Canonicalization ==
    num.done =>
        /\ num.accepted =>
              /\ \/ num.encoded = MissingText
                 \/ /\ num.encoded.kind = "number"
                    /\ num.encoded.milli \in 0..999
                    /\ num.encoded.ip < 100000000
              /\ num.parsed.ok
              /\ num.reencoded = num.encoded
              /\ num.f.missing <=> num.encoded = MissingText
        /\ RoundsBeyondRange(num.f) => ~num.accepted

\* 999.9996 is accepted, encoded as 1000.000 and parsed back as 1000
C24_Witness ==
    /\ num.done
    /\ num.f = Float(FALSE, 999, 9996)
    /\ num.accepted
    /\ num.encoded = NumberText(FALSE, 1000, 0)
    /\ num.parsed.value = Float(FALSE, 1000, 0)
    /\ num.reencoded = num.encoded

\* ------------------------------------------------------------------------
\* Properties of message routing
\* ------------------------------------------------------------------------
\* the line p of an inputs file matches the message B of module A
PatternMatches(p, A, B) ==
    /\ p.module = Star \/ p.module = A
    /\ p.variable = Star \/ p.variable = B

\* the names under which the subscriber is to receive the message B of
\* module A, one per matching line of its inputs file, in the file's order
RECURSIVE Deliveries(_, _, _)
Deliveries(lines, A, B) ==
    IF lines = <<>> THEN <<>>
    ELSE (IF PatternMatches(Head(lines), A, B)
            THEN <<IF Head(lines).local # <<>> THEN Head(lines).local ELSE Qualify(A, B)>>
            ELSE <<>>)
         \o Deliveries(Tail(lines), A, B)

\* C25: once the watcher has qualified a well-formed message B of module A,
\* the subscriber has received on its stdin one copy per matching line of
\* its inputs file, named by the line's local name or A.B.
C25_FanOut ==
    (passedOn # NoName /\ ValidateNamePart(passedOn.child)) =>
        \E k \in 0..Len(stdinWritten) :
            SubSeq(stdinWritten, k + 1, Len(stdinWritten))
                = Deliveries(inputs, passedOn.child, passedOn.original)

\* ------------------------------------------------------------------------
\* Properties of the selection and of updateModule
\* ------------------------------------------------------------------------
\* the remote versions outside bl whose (major, minor, patch) is above that
\* of minimum
AboveMinimum(remote, minimum, bl) ==
    {v \in remote : v \notin bl /\ ~TripleLE(v, minimum)}

MaxOfCurrentAndScheduled(current, scheduled) ==
    IF scheduled = NoVersion THEN current
    ELSE IF TripleLE(current, scheduled) THEN scheduled
    ELSE current

\* C27: in every check cycle the minimum passed to the selection for a
\* module is the greater of the module's current version and its scheduled
\* version.
C27_SelectionMinimum ==
    \A m \in Modules :
        lastSelect[m] # NoSelect =>
            lastSelect[m].minimum =
                MaxOfCurrentAndScheduled(lastSelect[m].current, lastSelect[m].scheduled)

\* ------------------------------------------------------------------------
\* C28: verification precedes the binary pull
\* ------------------------------------------------------------------------
\* what the claim requires of the signature container before the binary is
\* pulled, stated on the labels and the module's key
PullPreconditions ==
    /\ vp.outcome \notin {"sigpull", "inspect"}
    /\ vp.labels.digest # "" /\ vp.labels.pubkey # "" /\ vp.labels.signature # NoSignature
    /\ vp.labels.pubkey = vp.key
    /\ DecodedLen(vp.key) = 32
    /\ vp.labels.signature.key = vp.key
    /\ vp.labels.signature.msg = <<ImageOf("app"), Tag(VB), vp.labels.digest>>

BinaryCommands == {i \in DOMAIN vp.ran : vp.ran[i].image = <<ImageOf("app")>>}

\* C28: verifyAndPullImage pulls the binary only by the digest label of the
\* signature container, and only after the signature container was pulled,
\* the three labels were present, the declared key equalled the module's key,
\* the key decoded to 32 bytes and the signature verified over
\* "<base_image>:<tag> <digest>"; when one of these fails it returns an error
\* and runs no pull or tag of the binary image
C28_VerificationPrecedesPull ==
    vp.done =>
        /\ \A i \in BinaryCommands :
              /\ PullPreconditions
              /\ vp.ran[i].ref = vp.labels.digest
              /\ \E j \in 1..(i - 1) : vp.ran[j] = PullSignature(ImageOf("app"), Tag(VB))
              /\ vp.ran[i].cmd = "tag" => \E j \in 1..(i - 1) :
                                            vp.ran[j] = PullByDigest(ImageOf("app"), vp.labels.digest)
        /\ ~PullPreconditions => vp.err # "" /\ BinaryCommands = {}

\* a verified signature container: the binary was pulled by its digest and tagged
C28_Witness ==
    /\ vp.done
    /\ vp.labels = GoodLabels("app", VB)
    /\ vp.err = ""
    /\ \E i \in BinaryCommands : vp.ran[i] = PullByDigest(ImageOf("app"), "sha256:b")
    /\ \E i \in BinaryCommands : vp.ran[i].cmd = "tag"

\* ------------------------------------------------------------------------
\* C29: no nested orchestrator update in a verification run
\* ------------------------------------------------------------------------
\* the retry loop of the cycle ended with a version that was verified and pulled
FoundUpdate(sel) == sel.calls # <<>> /\ sel.calls[Len(sel.calls)].latest # NoVersion

\* C29: in a process started with --verification-run no update of the module
\* orchestrator is recorded as scheduled, no deferred task for it sleeps or
\* has written to the update channel, updateModule never handles it, and so
\* no binary is extracted to bin/; a check cycle that found an update of
\* another module records it as scheduled and starts its deferred task
C29_NoNestedOrchestratorUpdate ==
    [][mode' = "verify" =>
          /\ scheduledUpdates'["orchestrator"] = NoVersion
          /\ timers'["orchestrator"] = 0
          /\ \A i \in DOMAIN updateChannel' : updateChannel'[i] # "orchestrator"
          /\ lastUpdate'.module # "orchestrator"
          /\ ~lastUpdate'.extracted /\ ~lastUpdate'.cancel
          /\ mode = "verify" => binFiles' = binFiles
          /\ (mode = "verify" /\ cycles' = cycles + 1 /\ FoundUpdate(lastSelect'["app"]))
                => /\ scheduledUpdates'["app"] =
                          lastSelect'["app"].calls[Len(lastSelect'["app"].calls)].latest
                   /\ timers'["app"] = timers["app"] + 1]_vars

\* a check cycle of a verification run verified and pulled a newer
\* orchestrator version and a newer version of app: only app's is scheduled
C29_Witness ==
    /\ mode = "verify"
    /\ FoundUpdate(lastSelect["orchestrator"])
    /\ <<"orchestrator", VC>> \in verified
    /\ scheduledUpdates["orchestrator"] = NoVersion
    /\ scheduledUpdates["app"] = VB
    /\ timers["app"] = 1

\* ------------------------------------------------------------------------
\* C30: apply_update of the orchestrator
\* ------------------------------------------------------------------------
\* the local versions of module m of the host architecture
LocalVersionsOf(m) == {t.version : t \in {u \in localTags[m] : u.arch = HostArch}}

\* v is the greatest local version of m and above the running version
NewestAboveRunning(m, v) ==
    /\ v \in LocalVersionsOf(m)
    /\ \A w \in LocalVersionsOf(m) : TripleLE(w, v)
    /\ ~TripleLE(v, Version)

\* C30: an updateModule call requests the process-wide cancellation only for
\* the module orchestrator, only when the newest local version is strictly
\* greater than the running version and only after the binary was extracted
\* to bin/shem-orchestrator-<newest>; when the extraction fails or the newest
\* local version is not newer, it requests no cancellation, and the process
\* keeps running
C30_OrchestratorApplyUpdate ==
    [][(/\ pc = "run" /\ umTask = "run"
        /\ updateChannel # <<>> /\ updateChannel' = Tail(updateChannel)
        /\ lastUpdate'.module = Head(updateChannel))
          => LET m == Head(updateChannel)
                 newest == lastUpdate'.newest
                 applies == /\ m = "orchestrator"
                            /\ NewestAboveRunning(m, newest)
                            /\ lastUpdate'.extracted
             IN  /\ (cancelled' /\ ~cancelled) => applies /\ newest \in binFiles'
                 /\ ~applies => /\ cancelled' = cancelled
                                /\ binFiles' = binFiles
                                /\ pc' = "run" /\ umTask' = umTask]_vars

\* updateModule extracted orchestrator 0.0.5 while 0.0.4 was running and
\* requested the cancellation
C30_Witness ==
    /\ lastUpdate.module = "orchestrator"
    /\ lastUpdate.newest = VB
    /\ Version = VA
    /\ lastUpdate.extracted
    /\ VB \in binFiles
    /\ cancelled

\* ------------------------------------------------------------------------
\* C31: the bounded execution queue
\* ------------------------------------------------------------------------
\* the update manager's loop is running and the context is not cancelled
KeepsRunning == pc = "run" /\ umTask = "run" /\ ~cancelled

\* C31 (queue steps): a deferred task that wakes up ends in one step; it
\* appends its module name once when the queue has room and leaves the queue
\* unchanged when it is full; updateModule takes one name from the head of
\* the queue and removes that module's scheduled-update entry
C31_QueueSteps ==
    [][/\ \A m \in Modules :
            (pc = "run" /\ pc' = "run" /\ timers'[m] = timers[m] - 1)
               => /\ Len(updateChannel) < UpdateChannelCap
                       => updateChannel' = Append(updateChannel, m)
                  /\ Len(updateChannel) >= UpdateChannelCap
                       => updateChannel' = updateChannel
       /\ (pc = "run" /\ updateChannel # <<>> /\ updateChannel' = Tail(updateChannel)
              /\ lastUpdate'.module = Head(updateChannel))
               => scheduledUpdates' = [scheduledUpdates EXCEPT ![Head(updateChannel)] = NoVersion]
       /\ Len(updateChannel') <= UpdateChannelCap]_vars

\* C31: every scheduled-update entry is eventually cleared while the process
\* keeps running
C31_EntryEventuallyCleared ==
    \A m \in Modules :
        (scheduledUpdates[m] # NoVersion)
            ~> (scheduledUpdates[m] = NoVersion \/ ~KeepsRunning)

\* ------------------------------------------------------------------------
\* C32: prune of the instances that are no longer configured
\* ------------------------------------------------------------------------
\* C32: a reconcile tick in which listing the modules succeeded closes the
\* stdin of, and removes from the table, every instance whose name is not a
\* directory with an image file; a tick in which the listing failed leaves
\* the table and every child's stdin as they were
C32_Prune ==
    [][ticks' = ticks + 1 =>
          /\ lastTick'.listed =>
                \A n \in ModuleDirs :
                    (modules[n] # NoInstance /\ imageFile[n] = NoFile)
                        => /\ modules'[n] = NoInstance
                           /\ instances'[modules[n].id].stdinClosed
          /\ ~lastTick'.listed =>
                /\ modules' = modules
                /\ Len(instances') = Len(instances)
                /\ \A i \in DOMAIN instances :
                      instances'[i].stdinClosed = instances[i].stdinClosed]_vars

\* the image file of the running module app was removed, and the next tick
\* stopped app's instance
C32_Witness ==
    /\ lastTick.listed
    /\ imageFile["app"] = NoFile
    /\ lastTick.table["app"] # NoInstance
    /\ "app" \notin lastTick.examined
    /\ "app" \in lastTick.stopped
    /\ modules["app"] = NoInstance
    /\ instances[lastTick.table["app"].id].stdinClosed

\* ------------------------------------------------------------------------
\* C33: a graceful stop does not kill
\* ------------------------------------------------------------------------
\* requestStop in a reconcile step: the stdin of the instance is closed and
\* its record is removed; its child and its container are as they were
RequestStopFrame ==
    TickStep =>
        \A n \in lastTick'.stopped :
            LET i == modules[n].id
            IN  /\ instances'[i].stdinClosed
                /\ modules'[n] = NoInstance
                /\ instances'[i].status = instances[i].status
                /\ containerName(n) \in containers => containerName(n) \in containers'

\* the container of child i, stopped before this step, is force-removed by it
ForceRemoved(i) ==
    /\ instances[i].stdinClosed
    /\ modules[instances[i].name].id # i
    /\ instances[i].status = "running"
    /\ instances'[i].status = "exited"
    /\ ~ChildExits(i)

\* the step is an orphan sweep that finds the container of child i and removes it
SweptAway(i) ==
    /\ lastSweep'.before = containers
    /\ containerName(instances[i].name) \in lastSweep'.before \ lastSweep'.after
    /\ containerName(instances[i].name) \notin lastSweep'.expected

\* the step is podman run --replace creating the container of another
\* instance of the same module
ReplacedAway(i) ==
    \E j \in DOMAIN instances :
        /\ j # i
        /\ instances[j].name = instances[i].name
        /\ instances[j].status = "starting" /\ instances'[j].status = "running"

\* C33: requestStop closes the child's stdin and removes the record and
\* leaves the container and the child untouched; the container of a stopped
\* instance is force-removed only by the orphan sweep of a later reconcile
\* tick, and only if it still exists then
C33_GracefulStop ==
    [][/\ RequestStopFrame
       /\ \A i \in DOMAIN instances :
             ForceRemoved(i) => TickStep /\ SweptAway(i)]_vars

\* C33 (amended): as above, but the container of a stopped instance is
\* force-removed by an orphan sweep that runs after the stop, that of a later
\* reconcile tick or that of the global teardown, or by podman run --replace
\* when the container of another instance of the same module is created
\* while it still exists
C33_GracefulStopSweepOrReplace ==
    [][/\ RequestStopFrame
       /\ \A i \in DOMAIN instances :
             ForceRemoved(i) =>
                \/ (TickStep \/ Teardown) /\ SweptAway(i)
                \/ ReplacedAway(i)]_vars

\* app's instance was stopped by one tick, its container was still there at
\* the next tick, and that tick's sweep removed it
C33_Witness ==
    /\ mmTask = "run"
    /\ instances # <<>>
    /\ instances[1].stdinClosed
    /\ instances[1].status = "exited"
    /\ modules["app"].id # 1
    /\ lastSweep.by = "reconcile"
    /\ containerName("app") \in lastSweep.before \ lastSweep.after
    /\ lastTick.table["app"] = NoInstance

\* ------------------------------------------------------------------------
\* C34: the watcher ends after the child has exited
\* ------------------------------------------------------------------------
\* C34: once the child process has exited, its watcher eventually finishes
\* and the record of the instance is removed from the table, whatever
\* reading the child's stdout returns
C34_WatcherTerminates ==
    (wm.main # "none" /\ instances[1].status = "exited")
        ~> (instances[1].status = "reaped" /\ modules["app"] = NoInstance)

\* a message of the child's output is well-formed: it has no over-long line,
\* it is within MaxMessageBytes, Parse accepts it and its name is unqualified
WellFormedItem(item) ==
    /\ \A i \in DOMAIN item : item[i].line # LongLine
    /\ Bytes(item) - 1 <= MaxMessageBytes
    /\ Parse(item, Bytes(item) - 1).err = ""
    /\ ValidateNamePart(Parse(item, Bytes(item) - 1).msg.name)

\* the well-formed messages of the child's output, in order, under their
\* qualified names
RECURSIVE AcceptedOf(_)
AcceptedOf(items) ==
    IF items = <<>> THEN <<>>
    ELSE (IF WellFormedItem(Head(items))
            THEN <<[Parse(Head(items), Bytes(Head(items)) - 1).msg EXCEPT
                      !.name = Qualify(<<"app">>, @)]>>
            ELSE <<>>) \o AcceptedOf(Tail(items))

IsPrefixOf(s, t) == Len(s) <= Len(t) /\ \A i \in DOMAIN s : s[i] = t[i]

\* the stdout goroutine has nothing left to read: it has seen io.EOF, or its
\* scanner has failed
StdoutConsumed == wm.main # "none" /\ (wm.stdout = "done" \/ wm.failed)

\* C35 (as claimed): a malformed, badly-charactered or oversized message of
\* a child is dropped as a whole, so what the watcher accepts is at every
\* moment the well-formed messages of the child's output, in order and
\* nothing else; the child's record stays in the table while the child
\* runs; and every well-formed message after a dropped one is accepted: once
\* the output is consumed, all well-formed messages have been accepted.
C35_ProtocolErrorsIsolated ==
    wm.main # "none"
      => /\ IsPrefixOf(wm.received, AcceptedOf(wm.output))
         /\ instances[1].status = "running" => modules["app"] # NoInstance
         /\ StdoutConsumed => wm.received = AcceptedOf(wm.output)

\* the tasks Orchestrator.Run waits for have returned
TasksStopped ==
    /\ umTask = "done"
    /\ hbTask \in {"none", "done"}
    /\ vTask \in {"none", "checked", "done"}

\* C36: the process-wide cancellation is triggered only by a terminate or
\* interrupt signal, by updateModule requesting restart, or by a successful
\* verification check; once it is triggered, the update task, the heartbeat
\* task and the verification timer task all stop and Orchestrator.Run
\* returns (unless the process is killed first), whatever the tasks were
\* doing, with updates scheduled, sleeping or waiting in the channel.
C36_CancellationReachesEveryTask ==
    /\ [][(pc = "run" /\ ~cancelled /\ cancelled')
            => \/ UNCHANGED <<hostVars, umVars, obsVars, vTask>>
               \/ /\ updateChannel # <<>>
                  /\ updateChannel' = Tail(updateChannel)
                  /\ lastUpdate'.module = Head(updateChannel)
                  /\ lastUpdate'.cancel
               \/ vTask = "wait" /\ vTask' = "checked"]_vars
    /\ (pc = "run" /\ cancelled) ~> (TasksStopped \/ pc # "run")
    /\ (pc = "run" /\ cancelled) ~> (pc # "run")

C36_Witness ==
    /\ pc = "run" /\ cancelled /\ TasksStopped
    /\ hbTask = "done" /\ vTask = "done"
    /\ \E m \in Modules : scheduledUpdates[m] # NoVersion /\ timers[m] > 0

\* C37 (as claimed): the record of an instance leaves the table only by the
\* watcher of that same instance, by requestStop on it in reconcile, or by
\* teardown; the watcher of an older instance of the module that finishes
\* after a newer instance was registered leaves the newer record alone.
C37_InstanceSpecificRemoval ==
    [][\A n \in ModuleDirs :
          (modules[n] # NoInstance /\ modules'[n] # modules[n])
            => \/ ticks' = ticks + 1 /\ n \in lastTick'.stopped
               \/ mmTask = "run" /\ mmTask' = "stopped"
               \/ /\ instances[modules[n].id].status = "exited"
                  /\ instances'[modules[n].id].status = "reaped"]_vars

\* the attempts of the retry loop for the module at hand are versions of the
\* module's registry, no two of them the same, and each is on the cycle's
\* blacklist once it has failed
OneAttemptPerVersion ==
    /\ \A i \in DOMAIN retry.attempts : retry.attempts[i] \in retry.remote
    /\ \A i, j \in DOMAIN retry.attempts : i # j => retry.attempts[i] # retry.attempts[j]
    /\ Len(retry.attempts) <= Cardinality(retry.remote)
    /\ retry.phase = "loop" => \A i \in DOMAIN retry.attempts : retry.attempts[i] \in retry.bl

\* C38: with the registry fixed, the retry loop of checkAndScheduleUpdates
\* for one module makes at most one verifyAndPullImage attempt per remote
\* version, a version that failed being never selected again in the cycle;
\* the loop ends, the cycle proceeds to the next module and, after the last
\* one, returns.
C38_CheckCycleTerminates ==
    /\ []OneAttemptPerVersion
    /\ \A k \in 1..Len(CheckOrder) :
         (retry.phase = "loop" /\ Len(retry.todo) = k)
            ~> (retry.phase = "enter" /\ Len(retry.todo) = k - 1)
    /\ (retry.phase # "idle") ~> (retry.phase = "idle")

C38_Witness ==
    /\ retry.phase = "enter"
    /\ retry.todo = <<"orchestrator">>
    /\ retry.attempts = <<VC, VB>>
    /\ retry.remote = {VB, VC}
    /\ scheduledUpdates["app"] = NoVersion

\* C39: a verification run whose check has not fired removes nothing from
\* the orchestrator blacklist and leaves the symlink alone, so a run that is
\* cancelled by a signal before its check exits with both as they were; the
\* symlink is replaced only by a process running with --verification-run,
\* in the step of its check after the health check passed, and only to
\* point at that process's own version.
C39_InterruptedVerificationChangesNothing ==
    /\ [][(mode = "verify" /\ vTask' # "checked")
            => /\ symlink' = symlink
               /\ GetBlacklistedVersions(blacklist["orchestrator"])
                    \subseteq GetBlacklistedVersions(blacklist'["orchestrator"])]_vars
    /\ [][symlink' # symlink
            => /\ mode = "verify" /\ pc = "run"
               /\ vTask = "wait" /\ vTask' = "checked" /\ RunHealthCheck
               /\ symlink' = Version]_vars
    /\ [](lastExit.child # NoVersion /\ ~lastExit.promoted
            => lastExit.symlinkAfter = lastExit.symlinkBefore)

C39_Witness ==
    /\ mode = "none"
    /\ lastExit.child = VB /\ lastExit.kind = "exit" /\ lastExit.childCode = 0
    /\ ~lastExit.promoted
    /\ symlink = VA /\ lastExit.symlinkBefore = VA
    /\ VB \in GetBlacklistedVersions(blacklist["orchestrator"])

\* C40 (as claimed): with VB < VC in the registry, both newer than the
\* running VA and both correctly signed, VC's verification run failing and
\* VB's passing, the orchestrator eventually extracts VB, runs its
\* verification and the symlink eventually points at VB.
C40_FallbackMakesProgress ==
    /\ (findRemoteVersions("orchestrator") = {VB, VC}) ~> (VB \in binFiles)
    /\ (findRemoteVersions("orchestrator") = {VB, VC}) ~> (runs[VB] > 0)
    /\ (findRemoteVersions("orchestrator") = {VB, VC}) ~> (symlink = VB)

====
